---- MODULE Spec2Model ----
(***************************************************************************)
(* Connection core of the Slipstream TypeScript SDK:                       *)
(*   - SlipstreamClient.connect fallback chain and submission dispatch     *)
(*   - WebSocketTransport (sockets, handshake, pending requests,           *)
(*     subscriptions, reconnect, disconnect)                               *)
(*   - QuicTransport (connect, subscriptions, monitor, reconnect,          *)
(*     disconnect)                                                         *)
(*   - MultiRegionClient (routing from leader hints, sequential fallback,  *)
(*     broadcast, one SlipstreamClient per region)                         *)
(* JavaScript runs handlers to completion on one thread, so every event    *)
(* handler, timer callback and promise continuation is one atomic action.  *)
(* The ws library, the QUIC library and the server are the environment:    *)
(* their events are nondeterministic actions.                              *)
(***************************************************************************)
EXTENDS Integers, Naturals, Sequences, FiniteSets, TLC

\* ---------------------------------------------------------------- bounds
\* WebSocket sockets created in one run (new WebSocketModule(url))
MaxSockets == 3
\* QUIC connections dialled in one run (endpoint.connect)
MaxConns == 3
\* WebSocket submissions issued in one run
MaxReq == 2
\* caller operations (subscribe / unsubscribe / submit) in one run
MaxOps == 2
\* the clock of the connect() chain stops here (seconds)
MaxTime == 4
\* WebSocket sockets created in one run of the reconnect-exhaustion scenario
MaxAttemptSockets == 12
\* MultiRegionClient submissions issued in one run
MaxCalls == 2
\* leader hints delivered to the MultiRegionClient in one run
MaxHints == 2
\* backup regions named by one leader hint
MaxBackups == 1
\* seconds that pass in one run of the MultiRegionClient
MaxMultiTicks == 2

\* ping() calls whose promise or timer is still around at one time
MaxPings == 2
\* 1 ms steps of time are explored while a pending ping is younger than this
MaxRtt == 2
\* HTTP requests in one run
MaxRequests == 2
\* leader-hint bodies decoded in one run, and the longest region name in them
MaxDecodes == 2
MaxRegionLen == 3
\* inbound uni-directional streams processed in one run
MaxFlows == 2

\* submitTransactionWithOptions calls of one client
MaxSubmits == 3

\* a call that was not made yet
NotSubmitted == [phase |-> "idle", status |-> "none"]

\* results passed to TimeSyncManager.record in one run
MaxRecords == 12

\* ------------------------------------------------------ program constants
\* config.protocolTimeouts.quic, in seconds (2_000 ms)
QuicTimeout == 2
\* config.protocolTimeouts.websocket, in seconds (3_000 ms)
WsTimeout == 3
\* quicConfig.timeout of the QuicTransport, in seconds (2_000 ms)
QuicConfigTimeout == 2
\* maxReconnectAttempts of both streaming transports
maxReconnectAttempts == 10
\* cap of the reconnect delay, in ms (30_000)
MaxReconnectDelay == 30000
\* STREAM_TYPE.LeaderHints, STREAM_TYPE.TipInstructions
LeaderHints == 2
TipInstructions == 3

\* updateRoutingFromHint: validForMs of every recorded recommendation
validForMs == 1000
\* MultiRegionConfig of the runs explored
minSwitchConfidence == 70
\* switchCooldownMs of the runs that do not vary it, and the values of those that do
CooldownMs == 2000
Cooldowns == {0, CooldownMs}
maxBroadcastRegions == 2
\* Date.now() when the MultiRegionClient is created (ms; far above any cooldown)
StartTime == 10000
\* the keys of workersByRegion, in insertion order
RegionOrder == <<"a", "b", "c">>
\* confidence values of the leader hints explored
Confidences == {50, 90}

\* the interval of startHeartbeat, in ms (30_000)
HeartbeatInterval == 30000
\* the timeout of ping(), in ms (5000)
PingTimeout == 5000
\* the server's clock minus the client's, in ms
ServerSkew == -7
\* TimeSyncManager: maxSamples of the constructor's default
maxSamples == 10
\* the ping results explored (rttMs, clockOffsetMs)
PingResults == {[rttMs |-> 10, clockOffsetMs |-> 4], [rttMs |-> 20, clockOffsetMs |-> -7]}

\* stream names of the WebSocket transport (two of the five)
Streams == {"leader_hints", "tip_instructions"}
\* stream types of the QUIC transport (two of the three)
StreamTypes == {LeaderHints, TipInstructions}

ReqIds == 1..MaxReq

VARIABLES
  \* ---- SlipstreamClient
  pc,                 \* position of the static connect(): start, quic_wait, ws_wait, returned
  quicSupplied,       \* connect() was given a quicTransport argument
  leaderHints,        \* config.leaderHints
  clientQuic,         \* client.quicTransport /= null
  quicListener,       \* client's handlers are registered on the QUIC transport
  connectionInfo,     \* client._connectionInfo.protocol ("none" while null)
  clientConnected,    \* client._connected
  attempted,          \* candidates attempted by connect(), in order
  clock,              \* seconds elapsed in the current attempt of connect()
  lastRoute,          \* last submission dispatch: transport chosen and what was connected
  ops,                \* caller operations issued
  \* ---- WebSocketTransport
  wsSock,             \* this.ws: socket id, 0 = null
  sockState,          \* per socket: none, connecting, open, closing, aborted, failed, closed
  wsPromise,          \* per socket: the promise of the connect() that created it
  wsConnected,        \* this.connected
  reconnecting,       \* this.reconnecting
  wsReconnectAttempts,\* this.reconnectAttempts
  wsReconnectTimer,   \* this.reconnectTimer: delay (ms) of the armed timer, 0 = none
  wsShouldReconnect,  \* this.shouldReconnect
  pendingRequests,    \* keys of this.pendingRequests
  reqTimers,          \* request ids whose timeout timer is armed
  requestIdCounter,   \* this.requestIdCounter
  settled,            \* per request id: the resolve/reject calls made on its promise
  subscribedStreams,  \* this.subscribedStreams, in insertion order
  wsSent,             \* per socket: subscribe-related messages delivered on it
  wsFinal,            \* disconnect() has returned and connect() was not called since
  \* ---- QuicTransport
  quicConnected,      \* this._connected
  quicShouldReconnect,\* this.shouldReconnect
  quicReconnectAttempts, \* this.reconnectAttempts
  quicReconnectTimer, \* this.reconnectTimer: delay (ms) of the armed timer, 0 = none
  quicConnection,     \* this.connection: connection id, 0 = null
  quicEndpoint,       \* this.endpoint /= null
  subscriptionLoopRunning, \* this.subscriptionLoopRunning
  activeSubscriptions,\* this.activeSubscriptions, in insertion order
  quicCall,           \* the connect() in flight: phase, caller, connection
  connState,          \* per connection: none, dialing, open, closing, aborted, closed
  monitored,          \* connections whose closed-promise handler is pending
  quicSent,           \* per connection: subscription requests sent on it
  quicFinal,          \* disconnect() has returned and connect() was not called since
  terminalErrors,     \* per transport: 'error' events emitted for reconnect exhaustion
  \* ---- MultiRegionClient
  configRegion,       \* baseConfig.region ("none" while undefined)
  switchCooldownMs,   \* multiConfig.switchCooldownMs
  multiNow,           \* Date.now()
  currentRouting,     \* this.currentRouting (bestRegion "none" while null)
  lastSwitchTime,     \* this.lastSwitchTime
  routingUpdates,     \* 'routingUpdate' events emitted
  hintsSeen,          \* 'leaderHint' events delivered
  clients,            \* this.clients: the regions that have an entry
  created,            \* per region: SlipstreamClients connected and never disconnected
  calls,              \* per submission: its attempts, what it planned and how it ended
  \* ---- WebSocketTransport: keep-alive
  heartbeatIn,        \* ms until this.heartbeatTimer fires, -1 while it is null
  pendingPing,        \* this.pendingPing: the ping whose resolve/reject it holds, 0 = null
  pings,              \* per ping() call: its promise, its timer and its age
  pongs,              \* pong messages in flight
  \* ---- QuicTransport: the acceptor loop of startSubscriptionListener
  acceptor,           \* connection the loop awaits a stream on, 0 = no loop
  flowLog,            \* inbound uni-directional streams processed and what came of each
  \* ---- TimeSyncManager
  samples,            \* this.samples
  recorded,           \* every result passed to record(), in order
  \* ---- HttpTransport
  http,               \* per request(): its position, its timer and its outcome
  \* ---- ConfigBuilder
  builder,            \* this.config: the values set so far
  built,              \* what build() did
  \* ---- binary decoders
  decodeLog,          \* frame bodies decoded without and with their tag, and the results
  \* ---- the process
  uncaught,           \* an exception escaped an event handler
  lingering,          \* connections whose acceptor loop still awaits a stream after they went away
  \* ---- SlipstreamClient: the counters behind metrics()
  txSubmitted, txConfirmed,
  submissions         \* the submitTransactionWithOptions calls: idle, pending, or how they ended

clientVars == <<pc, quicSupplied, leaderHints, clientQuic, quicListener,
                connectionInfo, clientConnected, attempted, clock, lastRoute, ops>>
wsVars == <<wsSock, sockState, wsPromise, wsConnected, reconnecting,
            wsReconnectAttempts, wsReconnectTimer, wsShouldReconnect,
            pendingRequests, reqTimers, requestIdCounter, settled,
            subscribedStreams, wsSent, wsFinal>>
quicVars == <<quicConnected, quicShouldReconnect, quicReconnectAttempts,
              quicReconnectTimer, quicConnection, quicEndpoint,
              subscriptionLoopRunning, activeSubscriptions, quicCall,
              connState, monitored, quicSent, quicFinal>>
multiVars == <<configRegion, switchCooldownMs, multiNow, currentRouting, lastSwitchTime,
               routingUpdates, hintsSeen, clients, created, calls>>
pingRest == <<pendingPing, pings, pongs>>
metricVars == <<txSubmitted, txConfirmed, submissions>>
lateVars == <<decodeLog, uncaught, lingering, metricVars>>
otherVars == <<flowLog, samples, recorded, http, builder, built, lateVars>>
auxVars == <<heartbeatIn, acceptor, pingRest, otherVars>>
vars == <<clientVars, wsVars, quicVars, terminalErrors, multiVars, auxVars>>

\* the sockets and QUIC connections of the run
Sockets == DOMAIN sockState
Conns == DOMAIN connState

\* ---------------------------------------------------------------- helpers
Range(s) == {s[i] : i \in 1..Len(s)}

\* Set.add on an insertion-ordered set
SetAdd(s, x) == IF x \in Range(s) THEN s ELSE Append(s, x)

\* Set.delete on an insertion-ordered set
SetDelete(s, x) == SelectSeq(s, LAMBDA y : y /= x)

\* number of occurrences of x in a sequence
Count(s, x) == Cardinality({i \in 1..Len(s) : s[i] = x})

\* the socket the next new WebSocketModule(url) creates (0: bound reached)
NextSock == IF \E s \in Sockets : sockState[s] = "none"
            THEN CHOOSE s \in Sockets : sockState[s] = "none"
                                       /\ \A t \in Sockets : t < s => sockState[t] /= "none"
            ELSE 0

\* the connection the next endpoint.connect dials (0: bound reached)
NextConn == IF \E c \in Conns : connState[c] = "none"
            THEN CHOOSE c \in Conns : connState[c] = "none"
                                     /\ \A d \in Conns : d < c => connState[d] /= "none"
            ELSE 0

\* the socket created by the ws.connect() that SlipstreamClient.connect awaits:
\* it is the first connect() ever called on the transport
ClientSock == 1

ConnectMsg == [type |-> "connect", stream |-> ""]
SubscribeMsg(st) == [type |-> "subscribe", stream |-> st]
UnsubscribeMsg(st) == [type |-> "unsubscribe", stream |-> st]

\* sendMessage: JSON-encode and ws.send on this.ws; nothing when this.ws is
\* null, and a socket that is not open delivers nothing
sendMessage(log, msgs) ==
  IF wsSock /= 0 /\ sockState[wsSock] = "open"
  THEN [log EXCEPT ![wsSock] = @ \o msgs]
  ELSE log

\* the result of the last attempt of connect() becomes r
SetLast(att, r) == [att EXCEPT ![Len(att)].result = r]

\* ----------------------------------------------- SlipstreamClient.connect
\* HttpFallback with the catch rethrowing instead of degrading
HttpFallbackRethrow ==
  /\ connectionInfo' = connectionInfo
  /\ clientConnected' = FALSE
  /\ attempted' = SetLast(attempted, "failed")
  /\ pc' = "rejected"

\* catch of the WebSocket attempt: HTTP-only mode, connect() returns the client
HttpFallback ==
  /\ connectionInfo' = "http"
  /\ clientConnected' = TRUE
  /\ attempted' = Append(SetLast(attempted, "failed"), [cand |-> "http", result |-> "ok"])
  /\ pc' = "returned"

\* continuation of a resolved client.ws.connect(): record the info, auto-subscribe
WsSucceeded ==
  /\ connectionInfo' = "websocket"
  /\ clientConnected' = TRUE
  /\ attempted' = SetLast(attempted, "ok")
  /\ pc' = "returned"

\* SlipstreamClient.connect is awaiting the promise of socket s
ClientAwaitsWs(s) == pc = "ws_wait" /\ s = ClientSock

\* -------------------------------------------------- WebSocketTransport
\* Backoff without the cap
BackoffUncapped(n) == 1000 * 2^n

\* scheduleReconnect: Math.min(1000 * Math.pow(2, this.reconnectAttempts), 30_000)
Backoff(n) == IF 1000 * 2^n < MaxReconnectDelay THEN 1000 * 2^n ELSE MaxReconnectDelay

\* scheduleReconnect arms a timer unless one is pending or attempts ran out
WsCanSchedule == ~reconnecting /\ wsReconnectAttempts < maxReconnectAttempts

\* ClearTimers with the clearTimeout forgotten
ClearTimersForgotten(timers, rs) == timers

\* clearTimeout(pending.timer) for the request ids in rs
ClearTimers(timers, rs) == timers \ rs

\* one more settle call (resolve or reject) on the promise of every id in rs
Settle(st, rs, how, code, id) ==
  [r \in ReqIds |-> IF r \in rs
                    THEN Append(st[r], [by |-> how, code |-> code, id |-> id])
                    ELSE st[r]]

\* this.pendingRequests.get(requestId): the entry a server message settles
Matching(rid) == {r \in pendingRequests : r = rid}

\* connect(): new WebSocketModule(url) with the four handlers attached
WsNewSocket ==
  /\ NextSock /= 0
  /\ wsSock' = NextSock
  /\ sockState' = [sockState EXCEPT ![NextSock] = "connecting"]
  /\ wsPromise' = [wsPromise EXCEPT ![NextSock] = "pending"]

\* 'open': send the connect message
WsOnOpen(s) ==
  /\ sockState[s] = "connecting"
  /\ sockState' = [sockState EXCEPT ![s] = "open"]
  /\ wsSent' = IF wsSock = s THEN [wsSent EXCEPT ![s] = Append(@, ConnectMsg)] ELSE wsSent
  /\ UNCHANGED <<clientVars, quicVars, wsSock, wsPromise, wsConnected, reconnecting,
                 wsReconnectAttempts, wsReconnectTimer, wsShouldReconnect,
                 pendingRequests, reqTimers, requestIdCounter, settled,
                 subscribedStreams, wsFinal>>
  /\ UNCHANGED <<terminalErrors, multiVars, auxVars>>

\* 'message' of type connected while the connect() of s is unresolved: the
\* handshake. The server answers a connect message it received on s; the ws
\* library still delivers messages after a local close() until the peer
\* closes.
WsOnConnected(s) ==
  LET replay == [i \in 1..Len(subscribedStreams) |-> SubscribeMsg(subscribedStreams[i])]
      auto == ClientAwaitsWs(s) /\ leaderHints
  IN
  /\ sockState[s] \in {"open", "closing"}
  /\ wsPromise[s] = "pending"
  /\ Count(wsSent[s], ConnectMsg) > 0
  /\ wsConnected' = TRUE
  /\ wsReconnectAttempts' = 0
  /\ heartbeatIn' = HeartbeatInterval
  /\ wsPromise' = [wsPromise EXCEPT ![s] = "resolved"]
  /\ wsSent' = sendMessage(wsSent, replay \o (IF auto THEN <<SubscribeMsg("leader_hints")>> ELSE <<>>))
  /\ subscribedStreams' = IF auto THEN SetAdd(subscribedStreams, "leader_hints")
                                  ELSE subscribedStreams
  /\ IF ClientAwaitsWs(s)
     THEN WsSucceeded
     ELSE /\ clientConnected' = TRUE
          /\ UNCHANGED <<connectionInfo, attempted, pc>>
  /\ UNCHANGED <<quicVars, quicSupplied, leaderHints, clientQuic, quicListener, clock,
                 lastRoute, ops, wsSock, sockState, reconnecting, wsReconnectTimer,
                 wsShouldReconnect, pendingRequests, reqTimers, requestIdCounter,
                 settled, wsFinal>>
  /\ UNCHANGED <<terminalErrors, multiVars, acceptor, pingRest, otherVars>>

\* 'message' of type transaction_accepted / _update / _confirmed / _failed
\* carrying request id rid
WsOnTransaction(s, failed, rid) ==
  /\ sockState[s] \in {"open", "closing"}
  /\ Matching(rid) /= {}
  /\ reqTimers' = ClearTimers(reqTimers, Matching(rid))
  /\ pendingRequests' = pendingRequests \ Matching(rid)
  /\ settled' = Settle(settled, Matching(rid), "response",
                       IF failed THEN "TRANSACTION" ELSE "OK", rid)
  /\ UNCHANGED <<clientVars, quicVars, wsSock, sockState, wsPromise, wsConnected,
                 reconnecting, wsReconnectAttempts, wsReconnectTimer, wsShouldReconnect,
                 requestIdCounter, subscribedStreams, wsSent, wsFinal>>
  /\ UNCHANGED <<terminalErrors, multiVars, auxVars>>

\* the per-request timer of submitTransaction fires
WsRequestTimeout(rid) ==
  /\ rid \in reqTimers
  /\ reqTimers' = reqTimers \ {rid}
  /\ pendingRequests' = pendingRequests \ {rid}
  /\ settled' = Settle(settled, {rid}, "timer", "TIMEOUT", rid)
  /\ UNCHANGED <<clientVars, quicVars, wsSock, sockState, wsPromise, wsConnected,
                 reconnecting, wsReconnectAttempts, wsReconnectTimer, wsShouldReconnect,
                 requestIdCounter, subscribedStreams, wsSent, wsFinal>>
  /\ UNCHANGED <<terminalErrors, multiVars, auxVars>>

\* the client has an 'error' listener: the caller can register one once the
\* static connect() has returned the client (and is taken to do so at once);
\* a transport used without a client is taken to have one
ErrorListener == pc \notin {"quic_wait", "ws_wait"}

\* 'error': reject an unresolved connect(), emit error. The client's handler
\* forwards it with this.emit('error', err), which throws err when the client
\* has no 'error' listener
WsOnError(s) ==
  /\ sockState[s] \in {"connecting", "aborted", "open", "closing"}
  /\ sockState' = [sockState EXCEPT ![s] = "failed"]
  /\ wsPromise' = [wsPromise EXCEPT ![s] = IF @ = "pending" THEN "rejected" ELSE @]
  /\ IF ClientAwaitsWs(s) /\ wsPromise[s] = "pending"
     THEN HttpFallback
     ELSE UNCHANGED <<connectionInfo, clientConnected, attempted, pc>>
  /\ UNCHANGED <<quicVars, quicSupplied, leaderHints, clientQuic, quicListener, clock,
                 lastRoute, ops, wsSock, wsConnected, reconnecting, wsReconnectAttempts,
                 wsReconnectTimer, wsShouldReconnect, pendingRequests, reqTimers,
                 requestIdCounter, settled, subscribedStreams, wsSent, wsFinal>>
  /\ uncaught' = (uncaught \/ ~ErrorListener)
  /\ UNCHANGED <<terminalErrors, multiVars, heartbeatIn, acceptor, pingRest, flowLog,
                 samples, recorded, http, builder, built, decodeLog,
                 lingering, metricVars>>

\* 'close': mark disconnected, reject an unresolved connect(), reject every
\* pending request, schedule a reconnect (scheduleReconnect returns silently
\* once the attempts ran out). Nothing is sent on a closed socket any more:
\* its record of sent messages is released with it.
WsOnClose(s) ==
  LET sched == wsShouldReconnect /\ WsCanSchedule IN
  /\ sockState[s] \in {"connecting", "open", "closing", "aborted", "failed"}
  /\ sockState' = [sockState EXCEPT ![s] = "closed"]
  /\ wsConnected' = FALSE
  /\ heartbeatIn' = -1
  /\ wsPromise' = [wsPromise EXCEPT ![s] = IF @ = "pending" THEN "rejected" ELSE @]
  /\ reqTimers' = ClearTimers(reqTimers, pendingRequests)
  /\ settled' = Settle(settled, pendingRequests, "close", "CONNECTION", 0)
  /\ pendingRequests' = {}
  /\ reconnecting' = (reconnecting \/ sched)
  /\ wsReconnectAttempts' = IF sched THEN wsReconnectAttempts + 1 ELSE wsReconnectAttempts
  /\ wsReconnectTimer' = IF sched THEN Backoff(wsReconnectAttempts) ELSE wsReconnectTimer
  /\ IF ClientAwaitsWs(s) /\ wsPromise[s] = "pending"
     THEN HttpFallback
     ELSE /\ clientConnected' = FALSE
          /\ UNCHANGED <<connectionInfo, attempted, pc>>
  /\ wsSent' = [wsSent EXCEPT ![s] = <<>>]
  /\ UNCHANGED <<quicVars, quicSupplied, leaderHints, clientQuic, quicListener, clock,
                 lastRoute, ops, wsSock, wsShouldReconnect, requestIdCounter,
                 subscribedStreams, wsFinal>>
  /\ UNCHANGED <<terminalErrors, multiVars, acceptor, pingRest, otherVars>>

\* WsReconnectFire with the reconnecting flag left set
WsReconnectFireStillReconnecting ==
  /\ wsReconnectTimer /= 0
  /\ wsReconnectTimer' = 0
  /\ reconnecting' = reconnecting
  /\ WsNewSocket
  /\ UNCHANGED <<clientVars, quicVars, wsConnected, wsReconnectAttempts,
                 wsShouldReconnect, pendingRequests, reqTimers, requestIdCounter,
                 settled, subscribedStreams, wsSent, wsFinal>>
  /\ UNCHANGED <<terminalErrors, multiVars, auxVars>>

\* the reconnect timer fires: reconnecting = false, await this.connect()
WsReconnectFire ==
  /\ wsReconnectTimer /= 0
  /\ wsReconnectTimer' = 0
  /\ reconnecting' = FALSE
  /\ WsNewSocket
  /\ UNCHANGED <<clientVars, quicVars, wsConnected, wsReconnectAttempts,
                 wsShouldReconnect, pendingRequests, reqTimers, requestIdCounter,
                 settled, subscribedStreams, wsSent, wsFinal>>
  /\ UNCHANGED <<terminalErrors, multiVars, auxVars>>

\* close() of the ws library on socket state st
LocalClose(st) ==
  CASE st = "connecting" -> "aborted"
    [] st = "open" -> "closing"
    [] OTHER -> st

\* WebSocketTransport.disconnect()
WsDisconnectBody ==
  /\ wsShouldReconnect' = FALSE
  /\ heartbeatIn' = -1
  /\ wsReconnectTimer' = 0
  /\ sockState' = IF wsSock /= 0
                  THEN [sockState EXCEPT ![wsSock] = LocalClose(@)]
                  ELSE sockState
  /\ wsSock' = 0
  /\ wsConnected' = FALSE
  /\ wsFinal' = TRUE

\* a caller who uses the WebSocketTransport on its own calls connect() on a
\* transport that holds no socket (a new one, or after disconnect())
WsCallerConnect ==
  /\ pc = "start"
  /\ wsSock = 0
  /\ WsNewSocket
  /\ wsFinal' = FALSE
  /\ UNCHANGED <<clientVars, quicVars, wsConnected, reconnecting, wsReconnectAttempts,
                 wsReconnectTimer, wsShouldReconnect, pendingRequests, reqTimers,
                 requestIdCounter, settled, subscribedStreams, wsSent>>
  /\ UNCHANGED <<terminalErrors, multiVars, auxVars>>

\* that caller calls disconnect()
WsCallerDisconnect ==
  /\ pc = "start"
  /\ ~wsFinal
  /\ WsDisconnectBody
  /\ UNCHANGED <<clientVars, quicVars, wsPromise, reconnecting, wsReconnectAttempts,
                 pendingRequests, reqTimers, requestIdCounter, settled,
                 subscribedStreams, wsSent>>
  /\ UNCHANGED <<terminalErrors, multiVars, acceptor, pingRest, otherVars>>

\* subscribeLeaderHints() and its four siblings
WsSubscribeBody(st) ==
  /\ subscribedStreams' = SetAdd(subscribedStreams, st)
  /\ wsSent' = IF wsConnected THEN sendMessage(wsSent, <<SubscribeMsg(st)>>) ELSE wsSent

\* unsubscribe(stream)
WsUnsubscribe(st) ==
  /\ pc = "returned"
  /\ ops < MaxOps
  /\ ops' = ops + 1
  /\ subscribedStreams' = SetDelete(subscribedStreams, st)
  /\ wsSent' = IF wsConnected THEN sendMessage(wsSent, <<UnsubscribeMsg(st)>>) ELSE wsSent
  /\ UNCHANGED <<quicVars, pc, quicSupplied, leaderHints, clientQuic, quicListener,
                 connectionInfo, clientConnected, attempted, clock, lastRoute,
                 wsSock, sockState, wsPromise, wsConnected, reconnecting,
                 wsReconnectAttempts, wsReconnectTimer, wsShouldReconnect,
                 pendingRequests, reqTimers, requestIdCounter, settled, wsFinal>>
  /\ UNCHANGED <<terminalErrors, multiVars, auxVars>>

\* WebSocketTransport.submitTransaction once connected: register the pending
\* request with its timer and send it
WsSubmitBody ==
  /\ requestIdCounter' = requestIdCounter + 1
  /\ pendingRequests' = pendingRequests \cup {requestIdCounter + 1}
  /\ reqTimers' = reqTimers \cup {requestIdCounter + 1}

\* ------------------------------------------------------- QuicTransport
IdleCall == [phase |-> "idle", by |-> "none", conn |-> 0]

\* connect() up to the first await: new endpoint, endpoint.connect dialled
QuicConnectStart(by) ==
  /\ quicCall.phase = "idle"
  /\ NextConn /= 0
  /\ quicEndpoint' = TRUE
  /\ connState' = [connState EXCEPT ![NextConn] = "dialing"]
  /\ quicCall' = [phase |-> "dial", by |-> by, conn |-> NextConn]

\* scheduleReconnect arms a timer unless the attempts ran out
QuicCanSchedule == quicReconnectAttempts < maxReconnectAttempts

\* subscribe(streamType) on the transport: remember it and, when connected,
\* open a uni-directional stream and send the subscription frame
QuicSubscribeSent(log, connected, conn, types) ==
  IF connected /\ conn /= 0 THEN [log EXCEPT ![conn] = @ \o types] ELSE log

\* the stream types connect() itself requests again once authenticated
QuicReplayOnConnect(by) == IF by = "timer" THEN activeSubscriptions ELSE <<>>

\* SlipstreamClient.connect moves on from the QUIC attempt (try/catch) to
\* client.ws.connect()
TryWebSocket(why) ==
  /\ WsNewSocket
  /\ attempted' = Append(SetLast(attempted, why), [cand |-> "websocket", result |-> "pending"])
  /\ pc' = "ws_wait"
  /\ clock' = 0

\* the QUIC attempt of SlipstreamClient.connect is still being awaited
ClientAwaitsQuic == pc = "quic_wait" /\ quicCall.by = "client"

\* the timer connect() races against endpoint.connect is due (measured while
\* SlipstreamClient.connect waits on this connect())
DialDue == ClientAwaitsQuic /\ quicCall.phase = "dial" /\ clock >= QuicConfigTimeout

\* endpoint.connect resolved: this.connection is set, the auth exchange starts
QuicDialOk ==
  /\ quicCall.phase = "dial"
  /\ ~DialDue
  /\ connState[quicCall.conn] = "dialing"
  /\ quicConnection' = quicCall.conn
  /\ connState' = [connState EXCEPT ![quicCall.conn] = "open"]
  /\ quicCall' = [quicCall EXCEPT !.phase = "auth"]
  /\ UNCHANGED <<clientVars, wsVars, quicConnected, quicShouldReconnect,
                 quicReconnectAttempts, quicReconnectTimer, quicEndpoint,
                 subscriptionLoopRunning, activeSubscriptions, monitored,
                 quicSent, quicFinal>>
  /\ UNCHANGED <<terminalErrors, multiVars, auxVars>>

\* connect() throws: the dial was refused, timed out (quicConfig.timeout) or
\* was aborted; or the auth exchange failed or was refused
QuicConnectFail ==
  /\ \/ quicCall.phase = "dial" /\ connState[quicCall.conn] \in {"dialing", "aborted"}
     \/ quicCall.phase = "auth" /\ connState[quicCall.conn] \in {"open", "closing"}
  /\ connState' = [connState EXCEPT ![quicCall.conn] = "closed"]
  /\ quicCall' = IdleCall
  /\ IF ClientAwaitsQuic
     THEN /\ TryWebSocket("failed")
          /\ UNCHANGED <<quicSupplied, leaderHints, clientQuic, quicListener,
                         connectionInfo, clientConnected, lastRoute, ops,
                         wsConnected, reconnecting, wsReconnectAttempts,
                         wsReconnectTimer, wsShouldReconnect, pendingRequests,
                         reqTimers, requestIdCounter, settled, subscribedStreams,
                         wsSent, wsFinal>>
     ELSE UNCHANGED <<clientVars, wsVars>>
  /\ UNCHANGED <<quicConnected, quicShouldReconnect, quicReconnectAttempts,
                 quicReconnectTimer, quicConnection, quicEndpoint,
                 subscriptionLoopRunning, activeSubscriptions, monitored,
                 quicSent, quicFinal>>
  /\ UNCHANGED <<terminalErrors, multiVars, auxVars>>

\* the auth response says success: connect() marks the transport connected,
\* starts the listener and the monitor and resolves; then the continuation
\* of its caller runs (scheduleReconnect's timer callback, or
\* SlipstreamClient.connect if it is still waiting)
QuicAuthOk ==
  LET c == quicCall.conn
      client == ClientAwaitsQuic
      auto == client /\ leaderHints
      subs == IF auto THEN SetAdd(activeSubscriptions, LeaderHints) ELSE activeSubscriptions
      frames == QuicReplayOnConnect(quicCall.by) \o (IF auto THEN <<LeaderHints>> ELSE <<>>)
  IN
  /\ quicCall.phase = "auth"
  /\ connState[c] = "open"
  /\ quicConnected' = TRUE
  /\ quicReconnectAttempts' = 0
  /\ quicShouldReconnect' = TRUE
  /\ subscriptionLoopRunning' = TRUE
  /\ acceptor' = IF subscriptionLoopRunning THEN acceptor ELSE quicConnection
  /\ monitored' = monitored \cup {c}
  /\ quicCall' = IdleCall
  /\ activeSubscriptions' = subs
  /\ quicSent' = QuicSubscribeSent(quicSent, TRUE, quicConnection, frames)
  /\ IF client
     THEN /\ clientQuic' = TRUE
          /\ quicListener' = TRUE
          /\ connectionInfo' = "quic"
          /\ clientConnected' = TRUE
          /\ attempted' = SetLast(attempted, "ok")
          /\ pc' = "returned"
     ELSE UNCHANGED <<clientQuic, quicListener, connectionInfo, clientConnected,
                      attempted, pc>>
  /\ UNCHANGED <<wsVars, quicSupplied, leaderHints, clock, lastRoute, ops,
                 quicReconnectTimer, quicConnection, quicEndpoint, connState,
                 quicFinal>>
  /\ UNCHANGED <<terminalErrors, multiVars, heartbeatIn, pingRest, otherVars>>

\* monitorConnection: connection.closed settles
QuicConnClosed(c) ==
  LET sched == quicShouldReconnect /\ QuicCanSchedule IN
  /\ c \in monitored
  /\ connState[c] \in {"open", "closing"}
  /\ monitored' = monitored \ {c}
  /\ connState' = [connState EXCEPT ![c] = "closed"]
  /\ quicConnected' = FALSE
  /\ subscriptionLoopRunning' = FALSE
  /\ acceptor' = IF acceptor = c THEN 0 ELSE acceptor
  /\ lingering' = IF acceptor = c THEN lingering \cup {c} ELSE lingering
  /\ clientQuic' = IF quicListener THEN FALSE ELSE clientQuic
  /\ quicReconnectAttempts' = IF sched THEN quicReconnectAttempts + 1
                                       ELSE quicReconnectAttempts
  /\ quicReconnectTimer' = IF sched THEN Backoff(quicReconnectAttempts) ELSE quicReconnectTimer
  /\ terminalErrors' = IF quicShouldReconnect /\ ~QuicCanSchedule
                       THEN [terminalErrors EXCEPT !.quic = @ + 1]
                       ELSE terminalErrors
  /\ UNCHANGED <<wsVars, pc, quicSupplied, leaderHints, quicListener, connectionInfo,
                 clientConnected, attempted, clock, lastRoute, ops,
                 quicShouldReconnect, quicConnection, quicEndpoint,
                 activeSubscriptions, quicCall, quicSent, quicFinal>>
  /\ UNCHANGED <<multiVars, heartbeatIn, pingRest, flowLog, samples, recorded,
                 http, builder, built, decodeLog, uncaught,
                 metricVars>>

\* the reconnect timer fires: await this.connect()
QuicReconnectFire ==
  /\ quicReconnectTimer /= 0
  /\ quicReconnectTimer' = 0
  /\ QuicConnectStart("timer")
  /\ UNCHANGED <<clientVars, wsVars, quicConnected, quicShouldReconnect,
                 quicReconnectAttempts, quicConnection, subscriptionLoopRunning,
                 activeSubscriptions, monitored, quicSent, quicFinal>>
  /\ UNCHANGED <<terminalErrors, multiVars, auxVars>>

\* connection.close / endpoint.close of the QUIC library on connection state st
QuicLocalClose(st) ==
  CASE st = "dialing" -> "aborted"
    [] st = "open" -> "closing"
    [] OTHER -> st

\* QuicTransport.disconnect(): closing the connection and the endpoint also
\* aborts the dial or auth exchange of a connect() in flight
QuicDisconnectBody ==
  /\ quicShouldReconnect' = FALSE
  /\ subscriptionLoopRunning' = FALSE
  /\ acceptor' = 0
  /\ lingering' = IF acceptor = 0 THEN lingering ELSE lingering \cup {acceptor}
  /\ quicReconnectTimer' = 0
  /\ connState' = [c \in Conns |->
                     IF c = quicConnection \/ (quicEndpoint /\ c = quicCall.conn)
                     THEN QuicLocalClose(connState[c])
                     ELSE connState[c]]
  /\ quicConnection' = 0
  /\ quicEndpoint' = FALSE
  /\ quicConnected' = FALSE
  /\ quicFinal' = TRUE

\* the caller, who owns the QuicTransport, disconnects it
QuicCallerDisconnect ==
  /\ pc = "returned"
  /\ quicSupplied
  /\ ~quicFinal
  /\ QuicDisconnectBody
  /\ clientQuic' = IF quicListener THEN FALSE ELSE clientQuic
  /\ UNCHANGED <<wsVars, pc, quicSupplied, leaderHints, quicListener, connectionInfo,
                 clientConnected, attempted, clock, lastRoute, ops,
                 quicReconnectAttempts, activeSubscriptions, quicCall, monitored,
                 quicSent>>
  /\ UNCHANGED <<terminalErrors, multiVars, heartbeatIn, pingRest, flowLog, samples, recorded,
                 http, builder, built, decodeLog, uncaught,
                 metricVars>>

\* the caller connects the QuicTransport anew after a disconnect, once the
\* closed connections have wound down
QuicCallerConnect ==
  /\ quicFinal
  /\ \A c \in Conns : connState[c] \in {"none", "closed"}
  /\ QuicConnectStart("caller")
  /\ quicFinal' = FALSE
  /\ UNCHANGED <<clientVars, wsVars, quicConnected, quicShouldReconnect,
                 quicReconnectAttempts, quicReconnectTimer, quicConnection,
                 subscriptionLoopRunning, activeSubscriptions, monitored, quicSent>>
  /\ UNCHANGED <<terminalErrors, multiVars, auxVars>>

\* the listen() loop of startSubscriptionListener started for connection c:
\* its pending acceptUnidirectionalStream() settles after c was closed, the
\* loop breaks and its last statement clears the flag of the transport
QuicLoopExit(c) ==
  /\ c \in lingering
  /\ connState[c] = "closed"
  /\ lingering' = lingering \ {c}
  /\ subscriptionLoopRunning' = FALSE
  /\ UNCHANGED <<clientVars, wsVars, quicConnected, quicShouldReconnect,
                 quicReconnectAttempts, quicReconnectTimer, quicConnection,
                 quicEndpoint, activeSubscriptions, quicCall, connState, monitored,
                 quicSent, quicFinal>>
  /\ UNCHANGED <<terminalErrors, multiVars, heartbeatIn, acceptor, pingRest, flowLog,
                 samples, recorded, http, builder, built, decodeLog, uncaught,
                 metricVars>>

\* the caller subscribes on the QuicTransport: subscribeLeaderHints() and siblings
QuicCallerSubscribe(t) ==
  /\ quicSupplied
  /\ ops < MaxOps
  /\ ops' = ops + 1
  /\ activeSubscriptions' = SetAdd(activeSubscriptions, t)
  /\ quicSent' = QuicSubscribeSent(quicSent, quicConnected, quicConnection, <<t>>)
  /\ UNCHANGED <<wsVars, pc, quicSupplied, leaderHints, clientQuic, quicListener,
                 connectionInfo, clientConnected, attempted, clock, lastRoute,
                 quicConnected, quicShouldReconnect, quicReconnectAttempts,
                 quicReconnectTimer, quicConnection, quicEndpoint,
                 subscriptionLoopRunning, quicCall, connState, monitored, quicFinal>>
  /\ UNCHANGED <<terminalErrors, multiVars, auxVars>>

\* ----------------------------------------------------- SlipstreamClient
\* connect() with a quicTransport: race quicTransport.connect() against the timer
ClientTryQuic ==
  /\ pc = "start"
  /\ quicSupplied
  /\ QuicConnectStart("client")
  /\ attempted' = <<[cand |-> "quic", result |-> "pending"]>>
  /\ pc' = "quic_wait"
  /\ clock' = 0
  /\ UNCHANGED <<wsVars, quicSupplied, leaderHints, clientQuic, quicListener,
                 connectionInfo, clientConnected, lastRoute, ops,
                 quicConnected, quicShouldReconnect, quicReconnectAttempts,
                 quicReconnectTimer, quicConnection, subscriptionLoopRunning,
                 activeSubscriptions, monitored, quicSent, quicFinal>>
  /\ UNCHANGED <<terminalErrors, multiVars, auxVars>>

\* ClientTryWs taken also when a quicTransport was supplied
ClientTryWsAlways ==
  /\ pc = "start"
  /\ WsNewSocket
  /\ attempted' = <<[cand |-> "websocket", result |-> "pending"]>>
  /\ pc' = "ws_wait"
  /\ clock' = 0
  /\ UNCHANGED <<quicVars, quicSupplied, leaderHints, clientQuic, quicListener,
                 connectionInfo, clientConnected, lastRoute, ops,
                 wsConnected, reconnecting, wsReconnectAttempts, wsReconnectTimer,
                 wsShouldReconnect, pendingRequests, reqTimers, requestIdCounter,
                 settled, subscribedStreams, wsSent, wsFinal>>
  /\ UNCHANGED <<terminalErrors, multiVars, auxVars>>

\* connect() without a quicTransport: await client.ws.connect()
ClientTryWs ==
  /\ pc = "start"
  /\ ~quicSupplied
  /\ WsNewSocket
  /\ attempted' = <<[cand |-> "websocket", result |-> "pending"]>>
  /\ pc' = "ws_wait"
  /\ clock' = 0
  /\ UNCHANGED <<quicVars, quicSupplied, leaderHints, clientQuic, quicListener,
                 connectionInfo, clientConnected, lastRoute, ops,
                 wsConnected, reconnecting, wsReconnectAttempts, wsReconnectTimer,
                 wsShouldReconnect, pendingRequests, reqTimers, requestIdCounter,
                 settled, subscribedStreams, wsSent, wsFinal>>
  /\ UNCHANGED <<terminalErrors, multiVars, auxVars>>

\* the timer raced against quicTransport.connect() fires: 'QUIC timeout'
\* (the transport's own dial timer was armed earlier and fires first)
ClientQuicTimeout ==
  /\ pc = "quic_wait"
  /\ clock >= QuicTimeout
  /\ ~DialDue
  /\ TryWebSocket("timeout")
  /\ UNCHANGED <<quicVars, quicSupplied, leaderHints, clientQuic, quicListener,
                 connectionInfo, clientConnected, lastRoute, ops,
                 wsConnected, reconnecting, wsReconnectAttempts, wsReconnectTimer,
                 wsShouldReconnect, pendingRequests, reqTimers, requestIdCounter,
                 settled, subscribedStreams, wsSent, wsFinal>>
  /\ UNCHANGED <<terminalErrors, multiVars, auxVars>>

\* a timer that is due fires before time moves on
TimerDue == (pc = "quic_wait" /\ clock >= QuicTimeout) \/ DialDue

\* one second passes while connect() waits on a candidate
Tick ==
  /\ pc \in {"quic_wait", "ws_wait"}
  /\ ~TimerDue
  /\ clock < MaxTime
  /\ clock' = clock + 1
  /\ UNCHANGED <<wsVars, quicVars, pc, quicSupplied, leaderHints, clientQuic,
                 quicListener, connectionInfo, clientConnected, attempted,
                 lastRoute, ops>>
  /\ UNCHANGED <<terminalErrors, multiVars, auxVars>>

\* submitTransactionWithOptions: the transport the submission is dispatched to
Route ==
  IF clientQuic /\ quicConnected THEN "quic"
  ELSE IF wsConnected THEN "websocket"
  ELSE "http"

\* submitTransactionWithOptions
ClientSubmit ==
  /\ pc = "returned"
  /\ ops < MaxOps
  /\ ops' = ops + 1
  /\ lastRoute' = [via |-> Route, quic |-> quicConnected, ws |-> wsConnected]
  /\ IF Route = "websocket"
     THEN /\ requestIdCounter < MaxReq
          /\ WsSubmitBody
     ELSE UNCHANGED <<requestIdCounter, pendingRequests, reqTimers>>
  /\ UNCHANGED <<quicVars, pc, quicSupplied, leaderHints, clientQuic, quicListener,
                 connectionInfo, clientConnected, attempted, clock,
                 wsSock, sockState, wsPromise, wsConnected, reconnecting,
                 wsReconnectAttempts, wsReconnectTimer, wsShouldReconnect,
                 settled, subscribedStreams, wsSent, wsFinal>>
  /\ UNCHANGED <<terminalErrors, multiVars, auxVars>>

\* the stream type of the QUIC transport for a stream name
StreamTypeOf(st) == IF st = "leader_hints" THEN LeaderHints ELSE TipInstructions

\* subscribeLeaderHints() and siblings of the client
ClientSubscribe(st) ==
  /\ pc = "returned"
  /\ ops < MaxOps
  /\ ops' = ops + 1
  /\ IF clientQuic /\ quicConnected
     THEN /\ activeSubscriptions' = SetAdd(activeSubscriptions, StreamTypeOf(st))
          /\ quicSent' = QuicSubscribeSent(quicSent, quicConnected, quicConnection,
                                           <<StreamTypeOf(st)>>)
          /\ UNCHANGED <<subscribedStreams, wsSent>>
     ELSE /\ WsSubscribeBody(st)
          /\ UNCHANGED <<activeSubscriptions, quicSent>>
  /\ UNCHANGED <<pc, quicSupplied, leaderHints, clientQuic, quicListener,
                 connectionInfo, clientConnected, attempted, clock, lastRoute,
                 wsSock, sockState, wsPromise, wsConnected, reconnecting,
                 wsReconnectAttempts, wsReconnectTimer, wsShouldReconnect,
                 pendingRequests, reqTimers, requestIdCounter, settled, wsFinal,
                 quicConnected, quicShouldReconnect, quicReconnectAttempts,
                 quicReconnectTimer, quicConnection, quicEndpoint,
                 subscriptionLoopRunning, quicCall, connState, monitored, quicFinal>>
  /\ UNCHANGED <<terminalErrors, multiVars, auxVars>>

\* SlipstreamClient.disconnect()
ClientDisconnect ==
  /\ pc = "returned"
  /\ ~wsFinal
  /\ IF clientQuic
     THEN QuicDisconnectBody
     ELSE UNCHANGED <<quicShouldReconnect, subscriptionLoopRunning, quicReconnectTimer,
                      connState, quicConnection, quicEndpoint, quicConnected, quicFinal,
                      acceptor, lingering>>
  /\ clientQuic' = FALSE
  /\ WsDisconnectBody
  /\ clientConnected' = FALSE
  /\ UNCHANGED <<pc, quicSupplied, leaderHints, quicListener, connectionInfo,
                 attempted, clock, lastRoute, ops,
                 wsPromise, reconnecting, wsReconnectAttempts, pendingRequests,
                 reqTimers, requestIdCounter, settled, subscribedStreams, wsSent,
                 quicReconnectAttempts, activeSubscriptions, quicCall, monitored,
                 quicSent>>
  /\ UNCHANGED <<terminalErrors, multiVars, pingRest, flowLog, samples, recorded,
                 http, builder, built, decodeLog, uncaught,
                 metricVars>>

\* --------------------------------------------------- MultiRegionClient
\* the regions that have workers
Regions == Range(RegionOrder)

\* values of baseConfig.region explored
ConfigRegions == {"none", "b"}

\* this.currentRouting = null
NoRouting == [bestRegion |-> "none", confidence |-> 0, fallbackRegions |-> <<>>]

\* backupRegions of a leader hint: up to MaxBackups regions
BackupLists ==
  {<<>>} \cup {<<q>> : q \in Regions}
         \cup (IF MaxBackups > 1 THEN {<<q, r>> : q \in Regions, r \in Regions} ELSE {})

\* the leader hints explored: backupRegions holds no region twice and never
\* the preferred region
Hints ==
  {h \in [preferredRegion : Regions, backupRegions : BackupLists, confidence : Confidences] :
     /\ h.preferredRegion \notin Range(h.backupRegions)
     /\ Len(h.backupRegions) = Cardinality(Range(h.backupRegions))}

\* create(): config.region ?? workers[0]?.region
primaryRegion == IF configRegion /= "none" THEN configRegion ELSE RegionOrder[1]

\* getDefaultRegion: baseConfig.region ?? connectedRegions()[0]; entries are
\* never deleted from this.clients, so its first key is the primary region
getDefaultRegion == IF configRegion /= "none" THEN configRegion ELSE primaryRegion

\* getBroadcastRegions without the slice
getBroadcastRegionsAll == RegionOrder

\* getBroadcastRegions: the first maxBroadcastRegions keys of workersByRegion
getBroadcastRegions ==
  SubSeq(RegionOrder, 1, IF maxBroadcastRegions < Len(RegionOrder)
                         THEN maxBroadcastRegions ELSE Len(RegionOrder))

\* updateRoutingFromHint without the confidence gate
updateRoutingFromHintAnyConfidence(rt, hint, now) ==
  IF now - rt.last < switchCooldownMs THEN rt
  ELSE [routing |-> [bestRegion |-> hint.preferredRegion,
                     confidence |-> hint.confidence,
                     fallbackRegions |-> hint.backupRegions],
        last |-> now,
        updates |-> rt.updates + 1]

\* updateRoutingFromHint on rt = (currentRouting, lastSwitchTime, routingUpdate
\* events emitted)
updateRoutingFromHint(rt, hint, now) ==
  IF now - rt.last < switchCooldownMs THEN rt
  ELSE IF hint.confidence < minSwitchConfidence THEN rt
  ELSE [routing |-> [bestRegion |-> hint.preferredRegion,
                     confidence |-> hint.confidence,
                     fallbackRegions |-> hint.backupRegions],
        last |-> now,
        updates |-> rt.updates + 1]

\* the current recommendation is past its validity window: it was recorded at
\* lastSwitchTime with validForMs
Stale == currentRouting /= NoRouting /\ multiNow - lastSwitchTime > validForMs

\* a submission that was not issued yet
IdleSubmission ==
  [kind |-> "idle", attempts |-> <<>>, outcome |-> "none", ret |-> 0,
   plan |-> <<>>, todo |-> <<>>, usedStale |-> FALSE]

\* submitToRegion up to its first pending await: ensureRegionConnected returns
\* at once when the region has a client and the submission is handed to it;
\* otherwise SlipstreamClient.connect is awaited
submitToRegion(region) ==
  IF region \in clients
  THEN [region |-> region, stage |-> "submit", submits |-> 1]
  ELSE [region |-> region, stage |-> "connect", submits |-> 0]

\* an attempt that has not settled
Pending(a) == a.stage \in {"connect", "submit"}

\* the least index of an attempt in stage st (0: none)
FirstIn(A, st) ==
  IF \E j \in 1..Len(A) : A[j].stage = st
  THEN CHOOSE j \in 1..Len(A) : A[j].stage = st /\ \A k \in 1..(j - 1) : A[k].stage /= st
  ELSE 0

\* broadcastResult rejecting as soon as one region failed
broadcastResultAnyFailure(A) ==
  IF \E j \in 1..Len(A) : A[j].stage = "err"
  THEN [outcome |-> "rejected", ret |-> FirstIn(A, "err")]
  ELSE [outcome |-> "ok", ret |-> FirstIn(A, "ok")]

\* broadcastTransaction after Promise.allSettled: the first fulfilled result,
\* else the reason of the first rejected one
broadcastResult(A) ==
  IF \E j \in 1..Len(A) : A[j].stage = "ok"
  THEN [outcome |-> "ok", ret |-> FirstIn(A, "ok")]
  ELSE [outcome |-> "rejected", ret |-> FirstIn(A, "err")]

\* broadcastTransaction once attempt results A are in
AfterBroadcast(cl, A) ==
  IF \E j \in 1..Len(A) : Pending(A[j])
  THEN [cl EXCEPT !.attempts = A]
  ELSE [cl EXCEPT !.attempts = A,
                  !.outcome = broadcastResult(A).outcome,
                  !.ret = broadcastResult(A).ret]

\* submitTransactionWithOptions once attempt i has settled: return its result,
\* or (catch of the first attempt) read this.currentRouting?.fallbackRegions
\* and try the next fallback, or throw err, the error of the first attempt
AfterSingle(cl, A, i) ==
  LET fb == IF i = 1 THEN currentRouting.fallbackRegions ELSE cl.todo IN
  IF A[i].stage = "ok"
  THEN [cl EXCEPT !.attempts = A, !.outcome = "ok", !.ret = i]
  ELSE IF fb = <<>>
  THEN [cl EXCEPT !.attempts = A, !.outcome = "rejected", !.ret = 1]
  ELSE [cl EXCEPT !.attempts = Append(A, submitToRegion(Head(fb))),
                  !.todo = Tail(fb),
                  !.usedStale = @ \/ (i = 1 /\ Stale)]

\* the continuation of the submission after attempt i settled
AfterAttempt(cl, A, i) ==
  IF cl.kind = "single" THEN AfterSingle(cl, A, i) ELSE AfterBroadcast(cl, A)

transportVars == <<clientVars, wsVars, quicVars, terminalErrors, auxVars>>

\* a region's client emits 'leaderHint': the listener of ensureRegionConnected
\* runs updateRoutingFromHint, and so does the listener create() put on the
\* primary client (autoFollowLeader is on)
MultiHint(r, hint) ==
  LET rt0 == [routing |-> currentRouting, last |-> lastSwitchTime, updates |-> routingUpdates]
      rt1 == updateRoutingFromHint(rt0, hint, multiNow)
      rt2 == IF r = primaryRegion THEN updateRoutingFromHint(rt1, hint, multiNow) ELSE rt1
  IN
  /\ hintsSeen < MaxHints
  /\ r \in clients
  /\ hintsSeen' = hintsSeen + 1
  /\ currentRouting' = rt2.routing
  /\ lastSwitchTime' = rt2.last
  /\ routingUpdates' = rt2.updates
  /\ UNCHANGED <<transportVars, configRegion, switchCooldownMs, multiNow, clients, created, calls>>

\* submitTransactionWithOptions up to its first pending await
MultiSubmit(c, broadcast) ==
  LET region == IF currentRouting /= NoRouting THEN currentRouting.bestRegion
                                               ELSE getDefaultRegion
      regions == getBroadcastRegions
      single == [kind |-> "single",
                 attempts |-> <<submitToRegion(region)>>,
                 outcome |-> "none", ret |-> 0,
                 plan |-> <<region>> \o currentRouting.fallbackRegions,
                 todo |-> <<>>,
                 usedStale |-> Stale]
      fanout == [kind |-> "broadcast",
                 attempts |-> [i \in 1..Len(regions) |-> submitToRegion(regions[i])],
                 outcome |-> "none", ret |-> 0,
                 plan |-> regions,
                 todo |-> <<>>,
                 usedStale |-> FALSE]
  IN
  /\ calls[c].kind = "idle"
  /\ \A b \in 1..(c - 1) : calls[b].kind /= "idle"
  /\ calls' = [calls EXCEPT ![c] = IF broadcast THEN AfterBroadcast(fanout, fanout.attempts)
                                                ELSE single]
  /\ UNCHANGED <<transportVars, configRegion, switchCooldownMs, multiNow, currentRouting, lastSwitchTime,
                 routingUpdates, hintsSeen, clients, created>>

\* SlipstreamClient.connect of attempt i settles: on success ensureRegionConnected
\* stores the client and the submission is handed to it; on failure the
\* attempt has failed
MultiConnectDone(c, i, ok) ==
  LET cl == calls[c]
      r == cl.attempts[i].region
      A == [cl.attempts EXCEPT ![i] = IF ok THEN [@ EXCEPT !.stage = "submit", !.submits = @ + 1]
                                            ELSE [@ EXCEPT !.stage = "err"]]
  IN
  /\ i \in 1..Len(cl.attempts)
  /\ cl.attempts[i].stage = "connect"
  /\ clients' = IF ok THEN clients \cup {r} ELSE clients
  /\ created' = IF ok THEN [created EXCEPT ![r] = @ + 1] ELSE created
  /\ calls' = [calls EXCEPT ![c] = IF ok THEN [cl EXCEPT !.attempts = A]
                                         ELSE AfterAttempt(cl, A, i)]
  /\ UNCHANGED <<transportVars, configRegion, switchCooldownMs, multiNow, currentRouting, lastSwitchTime,
                 routingUpdates, hintsSeen>>

\* client.submitTransactionWithOptions of attempt i settles
MultiSubmitDone(c, i, ok) ==
  LET cl == calls[c]
      A == [cl.attempts EXCEPT ![i] = [@ EXCEPT !.stage = IF ok THEN "ok" ELSE "err"]]
  IN
  /\ i \in 1..Len(cl.attempts)
  /\ cl.attempts[i].stage = "submit"
  /\ calls' = [calls EXCEPT ![c] = AfterAttempt(cl, A, i)]
  /\ UNCHANGED <<transportVars, configRegion, switchCooldownMs, multiNow, currentRouting, lastSwitchTime,
                 routingUpdates, hintsSeen, clients, created>>

\* one second passes
MultiTick ==
  /\ multiNow < StartTime + 1000 * MaxMultiTicks
  /\ multiNow' = multiNow + 1000
  /\ UNCHANGED <<transportVars, configRegion, switchCooldownMs, currentRouting, lastSwitchTime,
                 routingUpdates, hintsSeen, clients, created, calls>>

\* the state after MultiRegionClient.create() has resolved: the primary region
\* is connected
MultiCreated ==
  /\ configRegion \in ConfigRegions
  /\ switchCooldownMs \in Cooldowns
  /\ multiNow = StartTime
  /\ currentRouting = NoRouting
  /\ lastSwitchTime = 0
  /\ routingUpdates = 0
  /\ hintsSeen = 0
  /\ clients = {primaryRegion}
  /\ created = [r \in Regions |-> IF r = primaryRegion THEN 1 ELSE 0]
  /\ calls = [c \in 1..MaxCalls |-> IdleSubmission]

\* ------------------------------------------------------ ConfigBuilder
\* the fields of SlipstreamConfig explored
ConfigFields == {"apiKey", "region", "tier", "minConfidence", "leaderHints"}

\* the values the setters are called with
SetterValues ==
  [apiKey |-> {"", "sk_test"}, region |-> {"a"}, tier |-> {"free"},
   minConfidence |-> {-1, 0, 100, 101}, leaderHints |-> {FALSE}]

\* DEFAULT_CONFIG (<<v>>: the field has the value v; <<>>: it has none)
DEFAULT_CONFIG ==
  [apiKey |-> <<>>, region |-> <<>>, tier |-> <<"pro">>,
   minConfidence |-> <<70>>, leaderHints |-> <<TRUE>>]

\* private config: Partial<SlipstreamConfig> = {}
EmptyBuilder == [f \in ConfigFields |-> <<>>]

\* { ...DEFAULT_CONFIG, ...this.config }
Spread(defaults, config) ==
  [f \in ConfigFields |-> IF config[f] /= <<>> THEN config[f] ELSE defaults[f]]

\* build() without the minConfidence check
buildAnyConfidence(config) ==
  IF config.apiKey = <<>> \/ config.apiKey = <<"">>
  THEN [error |-> "CONFIG", config |-> <<>>]
  ELSE [error |-> "none", config |-> <<Spread(DEFAULT_CONFIG, config)>>]

\* build(): !this.config.apiKey is true of an apiKey that is undefined or ''
build(config) ==
  IF config.apiKey = <<>> \/ config.apiKey = <<"">>
  THEN [error |-> "CONFIG", config |-> <<>>]
  ELSE IF /\ config.minConfidence /= <<>>
          /\ (config.minConfidence[1] < 0 \/ config.minConfidence[1] > 100)
  THEN [error |-> "CONFIG", config |-> <<>>]
  ELSE [error |-> "none", config |-> <<Spread(DEFAULT_CONFIG, config)>>]

\* everything but the builder and its last build
nonBuilder == <<clientVars, wsVars, quicVars, terminalErrors, multiVars, heartbeatIn,
                acceptor, pingRest, flowLog, samples, recorded, http, lateVars>>

\* a setter of the builder
BuilderSet(f, v) ==
  /\ builder' = [builder EXCEPT ![f] = <<v>>]
  /\ UNCHANGED <<nonBuilder, built>>

\* a call of build()
BuilderBuild ==
  /\ built' = [calls |-> IF built.calls < 2 THEN built.calls + 1 ELSE 2,
               of |-> builder,
               error |-> build(builder).error,
               config |-> build(builder).config]
  /\ UNCHANGED <<nonBuilder, builder>>

\* ------------------------------------------------------ HttpTransport
\* response statuses explored
Statuses == {200, 401, 404, 429, 500}

\* a request() call that was not made: where the call is, the status of the
\* response (0: none), whether controller.abort() ran, the timeout timer, what
\* the call threw inside try, and how the promise settled (code, and the
\* status its message embeds)
IdleRequest ==
  [at |-> "idle", status |-> 0, aborted |-> FALSE, timer |-> "none",
   thrown |-> "none", result |-> "none", embedded |-> 0]

\* response.ok
responseOk(status) == status >= 200 /\ status <= 299

\* everything but http
nonHttp == <<clientVars, wsVars, quicVars, terminalErrors, multiVars, heartbeatIn,
             acceptor, pingRest, flowLog, samples, recorded, builder, built, lateVars>>

\* the catch clause without the rethrow of a SlipstreamError
catchClauseNoRethrow(thrown) ==
  IF thrown = "AbortError" THEN "TIMEOUT" ELSE "CONNECTION"

\* the catch clause of request(): the code of the error it throws for what
\* was thrown inside try (a SlipstreamError is named by its code)
catchClause(thrown) ==
  IF thrown \in {"AUTH", "RATE_LIMITED", "INTERNAL"} THEN thrown
  ELSE IF thrown = "AbortError" THEN "TIMEOUT"
  ELSE "CONNECTION"

\* request() leaves try by throwing: catch, then finally clearTimeout(timer)
Throws(rq, thrown, embedded) ==
  [rq EXCEPT !.at = "done", !.thrown = thrown, !.result = catchClause(thrown),
             !.embedded = embedded,
             !.timer = IF rq.timer = "armed" THEN "cleared" ELSE rq.timer]

\* request() up to its await of fetch: the timer is armed
HttpRequest(q) ==
  /\ http[q].at = "idle"
  /\ http' = [http EXCEPT ![q] = [@ EXCEPT !.at = "fetch", !.timer = "armed"]]
  /\ UNCHANGED nonHttp

\* fetch resolves with a response: 401 and 429 throw at once, another
\* non-success status reads the body as text, a success status as JSON
HttpResponse(q, status) ==
  /\ http[q].at = "fetch"
  /\ http' = [http EXCEPT ![q] =
       IF status = 401 THEN Throws([@ EXCEPT !.status = status], "AUTH", 0)
       ELSE IF status = 429 THEN Throws([@ EXCEPT !.status = status], "RATE_LIMITED", 0)
       ELSE [@ EXCEPT !.status = status, !.at = IF responseOk(status) THEN "json" ELSE "text"]]
  /\ UNCHANGED nonHttp

\* fetch rejects although nothing aborted it (DNS, refused, reset)
HttpFetchFail(q) ==
  /\ http[q].at = "fetch"
  /\ http' = [http EXCEPT ![q] = Throws(@, "TypeError", 0)]
  /\ UNCHANGED nonHttp

\* response.text() settles: a rejection is caught and gives '', and either
\* way internal(`HTTP ${status}: ...`) is thrown
HttpTextDone(q, read) ==
  /\ http[q].at = "text"
  /\ http' = [http EXCEPT ![q] = Throws(@, "INTERNAL", @.status)]
  /\ UNCHANGED nonHttp

\* response.json() settles: the parsed body is returned, or the rejection
\* (body not JSON, body stream failed) is thrown; finally clears the timer
HttpJsonDone(q, parsed) ==
  /\ http[q].at = "json"
  /\ http' = [http EXCEPT ![q] =
       IF parsed
       THEN [@ EXCEPT !.at = "done", !.result = "ok",
                      !.timer = IF @ = "armed" THEN "cleared" ELSE @]
       ELSE Throws(@, "SyntaxError", 0)]
  /\ UNCHANGED nonHttp

\* the timeout timer fires: controller.abort() rejects the pending fetch or
\* body read with an AbortError
HttpTimerFire(q) ==
  /\ http[q].timer = "armed"
  /\ http' = [http EXCEPT ![q] =
       LET rq == [@ EXCEPT !.timer = "fired", !.aborted = TRUE] IN
       IF @.at = "text" THEN Throws(rq, "INTERNAL", @.status)
       ELSE Throws(rq, "AbortError", 0)]
  /\ UNCHANGED nonHttp

\* ------------------------------------------- binary streaming frames
\* the buffers read from inbound streams: per stream type a complete frame,
\* a truncated one and the tag alone; garbage; an unknown tag; no bytes
InboundFrames ==
  << <<2, 1, 97, 35, 40, 0, 0, 0, 5, 0, 0, 0, 0, 0, 0, 0, 0, 9>>,
     <<2, 1, 97>>,
     <<2>>,
     <<2, 200, 1, 2>>,
     <<3, 1, 115, 1, 119, 0, 0, 0, 0, 0, 0, 0, 7, 1, 116, 0, 0, 0, 4, 0, 0, 0, 0, 0, 0, 0, 9>>,
     <<3, 1, 115, 1>>,
     <<3>>,
     <<4, 0, 0, 0, 0, 0, 0, 0, 7, 80, 0, 0, 0, 3, 0, 0, 0, 0, 0, 0, 0, 9>>,
     <<4, 0, 0>>,
     <<6, 1, 104, 0, 0, 0, 0, 0, 0, 0, 7, 0, 0, 0, 0, 0, 0, 0, 9>>,
     <<6, 1>>,
     <<7, 0, 0, 0, 0, 0, 0, 0, 7, 0, 0, 0, 0, 0, 0, 0, 9>>,
     <<7, 0>>,
     <<9, 1, 2>>,
     <<>>,
     <<2, 1, 98, 58, 152, 0, 0, 0, 5, 0, 0, 0, 0, 0, 0, 0, 0, 9>> >>

\* the complete frames among them
CompleteFrames == {1, 5, 8, 10, 12, 16}

\* buf[offset]: undefined (-1) outside the buffer
ByteAt(buf, offset) ==
  IF offset >= 0 /\ offset < Len(buf) THEN buf[offset + 1] ELSE -1

\* offset += n: NaN (-1) once a length was undefined
Advance(offset, n) == IF offset < 0 \/ n < 0 THEN -1 ELSE offset + n

\* buf.readUInt16BE / readUInt32BE / readBigUInt64BE(offset) returns: it
\* throws a RangeError when the n bytes are not all inside the buffer
CanRead(buf, offset, n) == offset >= 0 /\ offset + n <= Len(buf)

\* the offset after the stream type byte, skipped when present
AfterTag(buf, tag) == IF buf[1] = tag THEN 1 ELSE 0

\* a decoder returns a frame when every read succeeded and throws at the
\* first one that did not
FrameIf(allRead) == IF allRead THEN "frame" ELSE "throw"

\* parseLeaderHint: null, a thrown RangeError, or a frame
parseLeaderHint(buf) ==
  IF Len(buf) < 1 THEN "null"
  ELSE LET o0 == AfterTag(buf, 2) IN
       IF Len(buf) < o0 + 1 THEN "null"
       ELSE LET o1 == o0 + 1 + ByteAt(buf, o0)
                o2 == o1 + 2
                o3 == o2 + 4
                pubkeyLen == ByteAt(buf, o3)
                o4 == IF Len(buf) > o3
                      THEN (IF pubkeyLen > 0 /\ Len(buf) >= o3 + 1 + pubkeyLen
                            THEN o3 + 1 + pubkeyLen ELSE o3 + 1)
                      ELSE o3
            IN FrameIf(CanRead(buf, o1, 2) /\ CanRead(buf, o2, 4) /\ CanRead(buf, o4, 8))

\* the LeaderHint parseLeaderHint returns for a buffer it decodes: region
\* (one letter here), confidence = confidenceRaw / 100 (the raw values
\* explored are multiples of 100), no backup regions
LeaderHintOf(buf) ==
  LET o0 == AfterTag(buf, 2)
      o1 == o0 + 1 + ByteAt(buf, o0)
  IN [preferredRegion |-> IF ByteAt(buf, o0 + 1) = 97 THEN "a" ELSE "b",
      backupRegions |-> <<>>,
      confidence |-> (ByteAt(buf, o1) * 256 + ByteAt(buf, o1 + 1)) \div 100]

\* buf.subarray(start, end): clamped to the buffer
Subarray(buf, start, end) ==
  SubSeq(buf, start + 1, IF end < Len(buf) THEN end ELSE Len(buf))

\* what parseLeaderHint does on a buffer: null or a throw (no fields), or the
\* fields of the LeaderHint it returns (region and leaderPubkey as bytes, the
\* numbers as the bytes read)
LeaderHintResult(buf) ==
  IF parseLeaderHint(buf) /= "frame"
  THEN [status |-> parseLeaderHint(buf), preferredRegion |-> <<>>, confidenceRaw |-> <<>>,
        expiresAtSlot |-> <<>>, leaderPubkey |-> <<>>, timestamp |-> <<>>]
  ELSE LET o0 == AfterTag(buf, 2)
           o1 == o0 + 1 + ByteAt(buf, o0)
           o3 == o1 + 6
           pubkeyLen == ByteAt(buf, o3)
           hasKey == Len(buf) > o3 /\ pubkeyLen > 0 /\ Len(buf) >= o3 + 1 + pubkeyLen
           o4 == IF Len(buf) > o3 THEN (IF hasKey THEN o3 + 1 + pubkeyLen ELSE o3 + 1)
                 ELSE o3
       IN [status |-> "frame",
           preferredRegion |-> Subarray(buf, o0 + 1, o1),
           confidenceRaw |-> Subarray(buf, o1, o1 + 2),
           expiresAtSlot |-> Subarray(buf, o1 + 2, o3),
           leaderPubkey |-> IF hasKey THEN Subarray(buf, o3 + 1, o3 + 1 + pubkeyLen)
                            ELSE <<>>,
           timestamp |-> Subarray(buf, o4, o4 + 8)]

\* the region names of the bodies explored: up to MaxRegionLen letters
RegionNames == UNION {[1..k -> {97, 98}] : k \in 0..MaxRegionLen}

\* the well-formed leader-hint frame bodies explored (no tag): region length,
\* region, confidence, slots remaining, an empty leader pubkey, timestamp
HintBodies ==
  {<<Len(region)>> \o region \o conf \o <<0, 0, 0, 5, 0, 0, 0, 0, 0, 0, 0, 0, 9>> :
     region \in RegionNames, conf \in {<<35, 40>>, <<0, 0>>}}

\* parseLeaderHint is called on a body and on the same body behind its tag
DecodeBoth(body) ==
  /\ Len(decodeLog) < MaxDecodes
  /\ decodeLog' = Append(decodeLog, [body |-> body,
                                     bare |-> LeaderHintResult(body),
                                     tagged |-> LeaderHintResult(<<2>> \o body)])
  /\ UNCHANGED <<clientVars, wsVars, quicVars, terminalErrors, multiVars, heartbeatIn,
                 acceptor, pingRest, flowLog, samples, recorded, http, builder, built,
                 uncaught, lingering, metricVars>>

\* parseTipInstruction
parseTipInstruction(buf) ==
  IF Len(buf) < 1 THEN "null"
  ELSE LET o0 == AfterTag(buf, 3)
           o1 == Advance(o0 + 1, ByteAt(buf, o0))
           o2 == Advance(Advance(o1, 1), ByteAt(buf, o1))
           o3 == Advance(o2, 8)
           o4 == Advance(Advance(o3, 1), ByteAt(buf, o3))
       IN FrameIf(CanRead(buf, o2, 8) /\ CanRead(buf, o4, 4)
                    /\ CanRead(buf, Advance(o4, 4), 8))

\* parsePriorityFee
parsePriorityFee(buf) ==
  IF Len(buf) < 1 THEN "null"
  ELSE LET o0 == AfterTag(buf, 4) IN
       FrameIf(CanRead(buf, o0, 8) /\ CanRead(buf, o0 + 9, 4) /\ CanRead(buf, o0 + 13, 8))

\* parseLatestBlockhash
parseLatestBlockhash(buf) ==
  IF Len(buf) < 1 THEN "null"
  ELSE LET o0 == AfterTag(buf, 6)
           o1 == Advance(o0 + 1, ByteAt(buf, o0))
       IN FrameIf(CanRead(buf, o1, 8) /\ CanRead(buf, Advance(o1, 8), 8))

\* parseLatestSlot
parseLatestSlot(buf) ==
  IF Len(buf) < 1 THEN "null"
  ELSE LET o0 == AfterTag(buf, 7) IN
       FrameIf(CanRead(buf, o0, 8) /\ CanRead(buf, o0 + 8, 8))

\* the decoder of a buffer's stream type applied to it ("none": no decoder
\* for the tag, or no tag)
Decoded(buf) ==
  IF Len(buf) < 1 THEN "none"
  ELSE CASE buf[1] = 2 -> parseLeaderHint(buf)
         [] buf[1] = 3 -> parseTipInstruction(buf)
         [] buf[1] = 4 -> parsePriorityFee(buf)
         [] buf[1] = 6 -> parseLatestBlockhash(buf)
         [] buf[1] = 7 -> parseLatestSlot(buf)
         [] OTHER -> "none"

\* ----------------------------------------- leader hints off the wire
\* confidence values of the 'leader_hint' messages explored
WireConfidences == {50, 90, 150}

\* the 'leader_hint' JSON messages explored: any backup_regions
WsHintMessages ==
  [preferred_region : Regions, backup_regions : BackupLists, confidence : WireConfidences]

\* WebSocketTransport.parseLeaderHint
wsParseLeaderHint(msg) ==
  [preferredRegion |-> msg.preferred_region,
   backupRegions |-> msg.backup_regions,
   confidence |-> msg.confidence]

\* the leader hints the transports emit: decoded 'leader_hint' messages and
\* decoded binary LeaderHints frames
WireHints ==
  {wsParseLeaderHint(msg) : msg \in WsHintMessages}
    \cup {LeaderHintOf(InboundFrames[i]) :
            i \in {k \in 1..Len(InboundFrames) :
                     /\ Len(InboundFrames[k]) > 0
                     /\ InboundFrames[k][1] = 2
                     /\ parseLeaderHint(InboundFrames[k]) = "frame"}}

\* ------------------------------------- QuicTransport: inbound streams
\* processIncomingStream(stream) and the catch on its promise: the event
\* emitted for the data read ("data": leaderHint / tipInstruction /
\* priorityFee; "error": 'Stream processing error'; "none")
processIncomingStream(buf) ==
  IF Len(buf) < 1 THEN "none"
  ELSE IF buf[1] \in {2, 3, 4}
       THEN CASE Decoded(buf) = "frame" -> "data"
              [] Decoded(buf) = "throw" -> "error"
              [] OTHER -> "none"
       ELSE "none"

\* QuicInboundFlow with processIncomingStream awaited inside the loop's try
QuicInboundFlowAwaited(i) ==
  LET broke == processIncomingStream(InboundFrames[i]) = "error"
      again == subscriptionLoopRunning /\ quicConnection /= 0 /\ ~broke IN
  /\ acceptor /= 0
  /\ connState[acceptor] = "open"
  /\ Len(flowLog) < MaxFlows
  /\ flowLog' = Append(flowLog, [frame |-> i, decoded |-> Decoded(InboundFrames[i]),
                                 event |-> processIncomingStream(InboundFrames[i])])
  /\ acceptor' = IF again THEN quicConnection ELSE 0
  /\ subscriptionLoopRunning' = again
  /\ UNCHANGED <<clientVars, wsVars, terminalErrors, multiVars, heartbeatIn, pingRest,
                 samples, recorded, http, builder, built, lateVars,
                 quicConnected, quicShouldReconnect, quicReconnectAttempts,
                 quicReconnectTimer, quicConnection, quicEndpoint, activeSubscriptions,
                 quicCall, connState, monitored, quicSent, quicFinal>>

\* the acceptor loop of startSubscriptionListener: acceptUnidirectionalStream
\* resolves with a stream carrying InboundFrames[i]; the stream is processed
\* in the background and the loop goes round
QuicInboundFlow(i) ==
  LET again == subscriptionLoopRunning /\ quicConnection /= 0 IN
  /\ acceptor /= 0
  /\ connState[acceptor] = "open"
  /\ Len(flowLog) < MaxFlows
  /\ flowLog' = Append(flowLog, [frame |-> i, decoded |-> Decoded(InboundFrames[i]),
                                 event |-> processIncomingStream(InboundFrames[i])])
  /\ acceptor' = IF again THEN quicConnection ELSE 0
  /\ subscriptionLoopRunning' = again
  /\ UNCHANGED <<clientVars, wsVars, terminalErrors, multiVars, heartbeatIn, pingRest,
                 samples, recorded, http, builder, built, lateVars,
                 quicConnected, quicShouldReconnect, quicReconnectAttempts,
                 quicReconnectTimer, quicConnection, quicEndpoint, activeSubscriptions,
                 quicCall, connState, monitored, quicSent, quicFinal>>

\* ------------------------------------- WebSocketTransport: keep-alive
\* a ping() that was not called, or whose promise and timer are both done
\* with. age is Date.now() - clientSendTime while the timer is armed; seq,
\* rttMs and clockOffsetMs are the PingResult the promise resolved with;
\* by is the ping whose timer rejected the promise; answeredAge and serverAgo
\* are, for the pong that resolved it, how long before its arrival the ping
\* it answers was sent and the server stamped it.
FreePing ==
  [state |-> "free", age |-> 0, timer |-> FALSE, ponged |-> FALSE, by |-> 0,
   seq |-> 0, rttMs |-> 0, clockOffsetMs |-> 0, answeredAge |-> 0, serverAgo |-> 0]

\* promises and timers nothing refers to any more are forgotten
Release(ps, waiting) ==
  [p \in DOMAIN ps |->
     IF ps[p].state \in {"resolved", "rejected"} /\ ~ps[p].timer /\ p \notin waiting
     THEN FreePing ELSE ps[p]]

\* clockOffsetMs of the 'pong' handler:
\* serverTime - (clientSendTime + Math.floor(rttMs / 2))
clockOffset(serverMinusSend, rttMs) == serverMinusSend - (rttMs \div 2)

\* ping() once connected: take the next seq, remember resolve/reject in
\* this.pendingPing, send the ping and arm its 5 s timer. answered: the
\* server receives it and will reply
PingBody(answered) ==
  LET free == {p \in DOMAIN pings : pings[p].state = "free"}
      p == CHOOSE q \in free : \A r \in free : q <= r
  IN
  /\ free /= {}
  /\ pings' = [pings EXCEPT ![p] = [FreePing EXCEPT !.state = "pending", !.timer = TRUE]]
  /\ pendingPing' = p
  /\ pongs' = IF answered /\ wsSock /= 0 THEN pongs \cup {p} ELSE pongs

\* the caller invokes ping()
WsPing(answered) ==
  /\ wsConnected
  /\ ops < MaxOps
  /\ ops' = ops + 1
  /\ PingBody(answered)
  /\ UNCHANGED <<wsVars, quicVars, pc, quicSupplied, leaderHints, clientQuic,
                 quicListener, connectionInfo, clientConnected, attempted, clock,
                 lastRoute, terminalErrors, multiVars, heartbeatIn, acceptor, otherVars>>

\* the interval timer of startHeartbeat fires: ping() when connected, its
\* rejection swallowed
WsHeartbeatFire(answered) ==
  /\ heartbeatIn = 0
  /\ heartbeatIn' = HeartbeatInterval
  /\ IF wsConnected THEN PingBody(answered) ELSE UNCHANGED pingRest
  /\ UNCHANGED <<clientVars, wsVars, quicVars, terminalErrors, multiVars,
                 acceptor, otherVars>>

\* 'message' of type pong, the reply to ping p, stamped by the server ago ms
\* before it arrives: resolve this.pendingPing, whichever ping that is
WsOnPong(p, ago) ==
  LET q == pendingPing
      rtt == pings[q].age
      resolved == [pings[q] EXCEPT !.state = "resolved", !.seq = p, !.rttMs = rtt,
                     !.clockOffsetMs = clockOffset(ServerSkew - ago + rtt, rtt),
                     !.answeredAge = pings[p].age, !.serverAgo = ago]
      marked == [pings EXCEPT ![p].ponged = pings[p].timer]
  IN
  /\ p \in pongs
  /\ wsSock /= 0
  /\ sockState[wsSock] = "open"
  /\ ago <= pings[p].age
  /\ pongs' = pongs \ {p}
  /\ pings' = Release(IF q /= 0 THEN [marked EXCEPT ![q] = [resolved EXCEPT
                                         !.ponged = marked[q].ponged]]
                               ELSE marked,
                      pongs \ {p})
  /\ pendingPing' = 0
  /\ UNCHANGED <<clientVars, wsVars, quicVars, terminalErrors, multiVars,
                 heartbeatIn, acceptor, otherVars>>

\* the 5 s timer armed by ping p fires: reject this.pendingPing, whichever
\* ping that is
WsPingTimeout(p) ==
  LET q == pendingPing
      fired == [pings EXCEPT ![p].timer = FALSE]
  IN
  /\ pings[p].timer
  /\ pings[p].age = PingTimeout
  /\ pings' = Release(IF q /= 0 THEN [fired EXCEPT ![q].state = "rejected", ![q].by = p]
                               ELSE fired,
                      pongs)
  /\ pendingPing' = 0
  /\ UNCHANGED <<clientVars, wsVars, quicVars, terminalErrors, multiVars,
                 heartbeatIn, acceptor, pongs, otherVars>>

\* ms until the timers that are armed fire
Remaining ==
  {PingTimeout - pings[p].age : p \in {q \in DOMAIN pings : pings[q].timer}}
    \cup (IF heartbeatIn >= 0 THEN {heartbeatIn} ELSE {})

\* time passes, up to the moment the next timer is due: by 1 ms while a
\* pending ping is young, or all the way
PingTick(d) ==
  /\ Remaining /= {}
  /\ d > 0
  /\ \A r \in Remaining : d <= r
  /\ \/ d \in Remaining
     \/ d = 1 /\ \E p \in DOMAIN pings :
                    pings[p].state = "pending" /\ pings[p].timer /\ pings[p].age < MaxRtt
  /\ pings' = [p \in DOMAIN pings |->
                IF pings[p].timer THEN [pings[p] EXCEPT !.age = @ + d] ELSE pings[p]]
  /\ heartbeatIn' = IF heartbeatIn >= 0 THEN heartbeatIn - d ELSE heartbeatIn
  /\ UNCHANGED <<clientVars, wsVars, quicVars, terminalErrors, multiVars,
                 acceptor, pendingPing, pongs, otherVars>>

\* ---------------------------------------------------- TimeSyncManager
\* record(result) with the shift left out
recordKeepsAll(s, result) == Append(s, result)

\* record(result): push, and shift the oldest out once over maxSamples
record(s, result) ==
  LET pushed == Append(s, result) IN
  IF Len(pushed) > maxSamples THEN Tail(pushed) ELSE pushed

\* Array.prototype.sort((a, b) => a - b) on numbers: ascending
RECURSIVE SortAscending(_)
SortAscending(v) ==
  IF Len(v) <= 1 THEN v
  ELSE LET rest == SortAscending(Tail(v))
           smaller == SelectSeq(rest, LAMBDA x : x < Head(v))
           others == SelectSeq(rest, LAMBDA x : x >= Head(v))
       IN smaller \o <<Head(v)>> \o others

\* sorted[Math.floor(sorted.length / 2)], or null (<<>>) without samples
MiddleOfSorted(v) ==
  IF Len(v) = 0 THEN <<>> ELSE <<SortAscending(v)[(Len(v) \div 2) + 1]>>

\* medianRttMs()
medianRttMs(s) == MiddleOfSorted([i \in 1..Len(s) |-> s[i].rttMs])

\* medianClockOffsetMs()
medianClockOffsetMs(s) == MiddleOfSorted([i \in 1..Len(s) |-> s[i].clockOffsetMs])

\* the interval callback of start() after its ping resolved: record(result)
TimeSyncRecord(result) ==
  /\ Len(recorded) < MaxRecords
  /\ samples' = record(samples, result)
  /\ recorded' = Append(recorded, result)
  /\ UNCHANGED <<<<clientVars, wsVars, quicVars, terminalErrors>>, multiVars, heartbeatIn, acceptor, pingRest,
                 flowLog, http, builder, built, lateVars>>

\* the state of the parts outside the connection lifecycles after construction
AuxCreated ==
  /\ heartbeatIn = -1
  /\ pendingPing = 0
  /\ pings = [p \in 1..MaxPings |-> FreePing]
  /\ pongs = {}
  /\ acceptor = 0
  /\ flowLog = <<>>
  /\ samples = <<>>
  /\ recorded = <<>>
  /\ http = [q \in 1..MaxRequests |-> IdleRequest]
  /\ builder = EmptyBuilder
  /\ built = [calls |-> 0, of |-> EmptyBuilder, error |-> "none", config |-> <<>>]
  /\ decodeLog = <<>>
  /\ uncaught = FALSE
  /\ lingering = {}
  /\ txSubmitted = 0
  /\ txConfirmed = 0
  /\ submissions = [k \in 1..MaxSubmits |-> NotSubmitted]

\* ------------------------------------------------------------ the system
InitSized(nSockets, nConns) ==
  /\ pc = "start"
  /\ quicSupplied \in BOOLEAN
  /\ leaderHints \in BOOLEAN
  /\ clientQuic = FALSE
  /\ quicListener = FALSE
  /\ connectionInfo = "none"
  /\ clientConnected = FALSE
  /\ attempted = <<>>
  /\ clock = 0
  /\ lastRoute = [via |-> "none", quic |-> FALSE, ws |-> FALSE]
  /\ ops = 0
  /\ wsSock = 0
  /\ sockState = [s \in 1..nSockets |-> "none"]
  /\ wsPromise = [s \in 1..nSockets |-> "none"]
  /\ wsConnected = FALSE
  /\ reconnecting = FALSE
  /\ wsReconnectAttempts = 0
  /\ wsReconnectTimer = 0
  /\ wsShouldReconnect = TRUE
  /\ pendingRequests = {}
  /\ reqTimers = {}
  /\ requestIdCounter = 0
  /\ settled = [r \in ReqIds |-> <<>>]
  /\ subscribedStreams = <<>>
  /\ wsSent = [s \in 1..nSockets |-> <<>>]
  /\ wsFinal = FALSE
  /\ quicConnected = FALSE
  /\ quicShouldReconnect = TRUE
  /\ quicReconnectAttempts = 0
  /\ quicReconnectTimer = 0
  /\ quicConnection = 0
  /\ quicEndpoint = FALSE
  /\ subscriptionLoopRunning = FALSE
  /\ activeSubscriptions = <<>>
  /\ quicCall = IdleCall
  /\ connState = [c \in 1..nConns |-> "none"]
  /\ monitored = {}
  /\ quicSent = [c \in 1..nConns |-> <<>>]
  /\ quicFinal = FALSE
  /\ terminalErrors = [ws |-> 0, quic |-> 0]
  /\ AuxCreated

\* the state after construction, before connect() is called
Init == InitSized(MaxSockets, MaxConns) /\ MultiCreated /\ configRegion = "none"
  /\ switchCooldownMs = CooldownMs

\* the connect() chain, the connection lifecycles of both transports and the
\* dispatch of submissions (the settlement of WebSocket submissions is
\* explored under SpecWs)
Next ==
  \/ ClientTryQuic
  \/ ClientTryWs
  \/ ClientQuicTimeout
  \/ Tick
  \/ ClientSubmit
  \/ ClientDisconnect
  \/ \E s \in Sockets : WsOnOpen(s)
  \/ \E s \in Sockets : WsOnConnected(s)
  \/ \E s \in Sockets : WsOnError(s)
  \/ \E s \in Sockets : WsOnClose(s)
  \/ WsReconnectFire
  \/ QuicDialOk
  \/ QuicConnectFail
  \/ QuicAuthOk
  \/ \E c \in Conns : QuicConnClosed(c)
  \/ QuicReconnectFire

Spec == Init /\ [][Next]_vars

\* the WebSocket transport under a client connected without QUIC
InitWs == Init /\ ~quicSupplied

NextWs ==
  \/ ClientTryWs
  \/ ClientSubmit
  \/ \E st \in Streams : ClientSubscribe(st)
  \/ ClientDisconnect
  \/ \E s \in Sockets : WsOnOpen(s)
  \/ \E s \in Sockets : WsOnConnected(s)
  \/ \E s \in Sockets, failed \in BOOLEAN, rid \in ReqIds : WsOnTransaction(s, failed, rid)
  \/ \E rid \in ReqIds : WsRequestTimeout(rid)
  \/ \E s \in Sockets : WsOnError(s)
  \/ \E s \in Sockets : WsOnClose(s)
  \/ WsReconnectFire
  \/ \E st \in Streams : WsUnsubscribe(st)

SpecWs == InitWs /\ [][NextWs]_vars

\* the WebSocket transport used on its own: connect(), disconnect(), connect()
NextWsCaller ==
  \/ WsCallerConnect
  \/ WsCallerDisconnect
  \/ \E s \in Sockets : WsOnOpen(s)
  \/ \E s \in Sockets : WsOnConnected(s)
  \/ \E s \in Sockets : WsOnError(s)
  \/ \E s \in Sockets : WsOnClose(s)
  \/ WsReconnectFire

SpecWsCaller == InitWs /\ [][NextWsCaller]_vars

\* the QUIC transport under a client connected with it, and its owner's calls
InitQuic == Init /\ quicSupplied

NextQuic ==
  \/ ClientTryQuic
  \/ ClientQuicTimeout
  \/ Tick
  \/ \E st \in Streams : ClientSubscribe(st)
  \/ ClientDisconnect
  \/ \E s \in Sockets : WsOnOpen(s)
  \/ \E s \in Sockets : WsOnConnected(s)
  \/ \E s \in Sockets : WsOnClose(s)
  \/ QuicDialOk
  \/ QuicConnectFail
  \/ QuicAuthOk
  \/ \E c \in Conns : QuicConnClosed(c)
  \/ QuicReconnectFire
  \/ QuicCallerDisconnect
  \/ QuicCallerConnect
  \/ \E t \in StreamTypes : QuicCallerSubscribe(t)

SpecQuic == InitQuic /\ [][NextQuic]_vars

\* a forced disconnect of the connected WebSocket: the server or the network
\* closes it (bounded by the sockets left for the reconnect)
WsForcedClose(s) ==
  /\ wsConnected
  /\ wsSock = s
  /\ sockState[s] = "open"
  /\ NextSock /= 0
  /\ WsOnClose(s)

\* a forced disconnect of the connected QUIC connection
QuicForcedClose(c) ==
  /\ quicConnected
  /\ quicConnection = c
  /\ NextConn /= 0
  /\ QuicConnClosed(c)

\* both transports against a server that accepts every connection attempt:
\* the only failures are forced disconnects of a connected transport
NextAccepting ==
  \/ ClientTryQuic
  \/ ClientTryWs
  \/ \E st \in Streams : ClientSubscribe(st)
  \/ ClientDisconnect
  \/ \E s \in Sockets : WsOnOpen(s)
  \/ \E s \in Sockets : WsOnConnected(s)
  \/ \E s \in Sockets : WsForcedClose(s)
  \/ WsReconnectFire
  \/ QuicDialOk
  \/ QuicAuthOk
  \/ \E c \in Conns : QuicForcedClose(c)
  \/ QuicReconnectFire

\* armed timers fire and the accepting server answers
FairAccepting ==
  /\ WF_vars(WsReconnectFire)
  /\ WF_vars(\E s \in Sockets : WsOnOpen(s))
  /\ WF_vars(\E s \in Sockets : WsOnConnected(s))
  /\ WF_vars(QuicReconnectFire)
  /\ WF_vars(QuicDialOk)
  /\ WF_vars(QuicAuthOk)

SpecAccepting == Init /\ [][NextAccepting]_vars /\ FairAccepting

\* reconnect attempts that may keep failing, with room for the WebSocket
\* transport to use up its attempts
InitBackoff == InitSized(MaxAttemptSockets, MaxConns) /\ MultiCreated /\ configRegion = "none"
  /\ switchCooldownMs = CooldownMs

NextBackoff ==
  \/ ClientTryQuic
  \/ ClientTryWs
  \/ \E s \in Sockets : WsOnOpen(s)
  \/ \E s \in Sockets : WsOnConnected(s)
  \/ \E s \in Sockets : WsOnError(s)
  \/ \E s \in Sockets : WsOnClose(s)
  \/ WsReconnectFire
  \/ QuicDialOk
  \/ QuicConnectFail
  \/ QuicAuthOk
  \/ \E c \in Conns : QuicConnClosed(c)
  \/ QuicReconnectFire

SpecBackoff == InitBackoff /\ [][NextBackoff]_vars

\* the MultiRegionClient over per-region clients whose connects and
\* submissions succeed or fail as the network decides
InitMulti ==
  /\ InitSized(MaxSockets, MaxConns)
  /\ ~quicSupplied
  /\ leaderHints
  /\ MultiCreated
  /\ configRegion = "b"
  /\ switchCooldownMs = CooldownMs

NextMulti ==
  \/ \E r \in Regions, hint \in Hints : MultiHint(r, hint)
  \/ \E c \in 1..MaxCalls, broadcast \in BOOLEAN : MultiSubmit(c, broadcast)
  \/ \E c \in 1..MaxCalls, ok \in BOOLEAN :
       \E i \in 1..Len(calls[c].attempts) : MultiConnectDone(c, i, ok)
  \/ \E c \in 1..MaxCalls, ok \in BOOLEAN :
       \E i \in 1..Len(calls[c].attempts) : MultiSubmitDone(c, i, ok)
  \/ MultiTick

SpecMulti == InitMulti /\ [][NextMulti]_vars

\* the routing state alone: leader hints and the passing of time
NextRouting ==
  \/ \E r \in Regions, hint \in Hints : MultiHint(r, hint)
  \/ MultiTick

SpecRouting == InitMulti /\ [][NextRouting]_vars

\* the routing state under every switchCooldownMs explored
InitCooldown ==
  /\ InitSized(MaxSockets, MaxConns)
  /\ ~quicSupplied
  /\ leaderHints
  /\ MultiCreated
  /\ configRegion = "b"

SpecCooldown == InitCooldown /\ [][NextRouting]_vars

\* broadcast submissions alone (they read no routing state)
NextBroadcast ==
  \/ \E c \in 1..MaxCalls : MultiSubmit(c, TRUE)
  \/ \E c \in 1..MaxCalls, ok \in BOOLEAN :
       \E i \in 1..Len(calls[c].attempts) : MultiConnectDone(c, i, ok)
  \/ \E c \in 1..MaxCalls, ok \in BOOLEAN :
       \E i \in 1..Len(calls[c].attempts) : MultiSubmitDone(c, i, ok)

SpecBroadcast == InitMulti /\ [][NextBroadcast]_vars

\* broadcasts where the first region of every fan-out answers (its connect and
\* its submission settle, one way or the other) and nothing is assumed of the
\* other regions, whose attempts may hang
FairBroadcast ==
  \A c \in 1..MaxCalls :
    /\ WF_vars(\E ok \in BOOLEAN : MultiConnectDone(c, 1, ok))
    /\ WF_vars(\E ok \in BOOLEAN : MultiSubmitDone(c, 1, ok))

SpecHang == InitMulti /\ [][NextBroadcast]_vars /\ FairBroadcast

\* a ConfigBuilder whose setters and build() are called in any order
NextBuilder ==
  \/ \E f \in ConfigFields : \E v \in SetterValues[f] : BuilderSet(f, v)
  \/ BuilderBuild

SpecBuilder == Init /\ [][NextBuilder]_vars

\* requests of the HTTP transport
NextHttp ==
  \/ \E q \in 1..MaxRequests : HttpRequest(q)
  \/ \E q \in 1..MaxRequests, status \in Statuses : HttpResponse(q, status)
  \/ \E q \in 1..MaxRequests : HttpFetchFail(q)
  \/ \E q \in 1..MaxRequests, read \in BOOLEAN : HttpTextDone(q, read)
  \/ \E q \in 1..MaxRequests, parsed \in BOOLEAN : HttpJsonDone(q, parsed)
  \/ \E q \in 1..MaxRequests : HttpTimerFire(q)

SpecHttp == Init /\ [][NextHttp]_vars

\* the routing state under the leader hints the transports can emit
NextWire ==
  \/ \E r \in Regions, hint \in WireHints : MultiHint(r, hint)
  \/ MultiTick

SpecWire == InitMulti /\ [][NextWire]_vars

\* parseLeaderHint on frame bodies with and without the stream type tag
NextDecode == \E body \in HintBodies : DecodeBoth(body)

SpecDecode == Init /\ [][NextDecode]_vars

\* the QUIC transport with inbound streams arriving on its connection
NextFlows ==
  \/ ClientTryQuic
  \/ QuicDialOk
  \/ QuicAuthOk
  \/ \E c \in Conns : QuicConnClosed(c)
  \/ QuicReconnectFire
  \/ QuicCallerDisconnect
  \/ QuicCallerConnect
  \/ \E i \in 1..Len(InboundFrames) : QuicInboundFlow(i)

SpecFlows == InitQuic /\ [][NextFlows]_vars

\* the acceptor loops of a QuicTransport of the caller, each ending by itself
NextLoops ==
  \/ NextFlows
  \/ \E c \in Conns : QuicLoopExit(c)

SpecLoops == InitQuic /\ [][NextLoops]_vars

\* ------------------------------------- SlipstreamClient: metrics()
\* TransactionStatus values a result carries
TransactionStatuses == {"pending", "sent", "confirmed", "failed"}

\* submitTransactionWithOptions is called: the transport is chosen and its
\* submitTransaction awaited; other calls run meanwhile
SubmitStart(k) ==
  /\ submissions[k] = NotSubmitted
  /\ submissions' = [submissions EXCEPT ![k] = [phase |-> "pending", status |-> "none"]]
  /\ UNCHANGED <<clientVars, wsVars, quicVars, terminalErrors, multiVars, heartbeatIn,
                 acceptor, pingRest, flowLog, samples, recorded, http, builder, built,
                 decodeLog, uncaught, lingering, txSubmitted, txConfirmed>>

\* the transport resolves with a result of status st: the statements after
\* the try block run without an await between them
SubmitResolved(k, st) ==
  /\ submissions[k].phase = "pending"
  /\ submissions' = [submissions EXCEPT ![k] = [phase |-> "resolved", status |-> st]]
  /\ txSubmitted' = txSubmitted + 1
  /\ txConfirmed' = IF st \in {"confirmed", "sent"} THEN txConfirmed + 1 ELSE txConfirmed
  /\ UNCHANGED <<clientVars, wsVars, quicVars, terminalErrors, multiVars, heartbeatIn,
                 acceptor, pingRest, flowLog, samples, recorded, http, builder, built,
                 decodeLog, uncaught, lingering>>

\* a catch clause that rethrows without counting the call
SubmitThrewUncounted(k) ==
  /\ submissions[k].phase = "pending"
  /\ submissions' = [submissions EXCEPT ![k] = [phase |-> "threw", status |-> "none"]]
  /\ UNCHANGED <<clientVars, wsVars, quicVars, terminalErrors, multiVars, heartbeatIn,
                 acceptor, pingRest, flowLog, samples, recorded, http, builder, built,
                 decodeLog, uncaught, lingering, txSubmitted, txConfirmed>>

\* the transport rejects: the catch clause counts the call and rethrows
SubmitThrew(k) ==
  /\ submissions[k].phase = "pending"
  /\ submissions' = [submissions EXCEPT ![k] = [phase |-> "threw", status |-> "none"]]
  /\ txSubmitted' = txSubmitted + 1
  /\ UNCHANGED <<clientVars, wsVars, quicVars, terminalErrors, multiVars, heartbeatIn,
                 acceptor, pingRest, flowLog, samples, recorded, http, builder, built,
                 decodeLog, uncaught, lingering, txConfirmed>>

\* metrics()
metrics ==
  [transactionsSubmitted |-> txSubmitted, transactionsConfirmed |-> txConfirmed]

NextMetrics ==
  \/ \E k \in 1..MaxSubmits : SubmitStart(k)
  \/ \E k \in 1..MaxSubmits, st \in TransactionStatuses : SubmitResolved(k, st)
  \/ \E k \in 1..MaxSubmits : SubmitThrew(k)

SpecMetrics == Init /\ [][NextMetrics]_vars

\* pings of the caller and of the heartbeat on a connected WebSocket
\* transport whose server answers each ping, sooner or later
NextPing ==
  \/ ClientTryWs
  \/ \E s \in Sockets : WsOnOpen(s)
  \/ \E s \in Sockets : WsOnConnected(s)
  \/ WsPing(TRUE)
  \/ WsHeartbeatFire(TRUE)
  \/ \E p \in 1..MaxPings, ago \in 0..1 : WsOnPong(p, ago)
  \/ \E p \in 1..MaxPings : WsPingTimeout(p)
  \/ \E d \in {1} \cup Remaining : PingTick(d)

SpecPing == InitWs /\ [][NextPing]_vars

\* a WebSocket connection that dies silently once established: no message
\* and no close event arrive any more; the caller goes on using the client,
\* timers fire and time passes
NextSilent ==
  \/ ClientTryWs
  \/ \E s \in Sockets : WsOnOpen(s)
  \/ \E s \in Sockets : WsOnConnected(s)
  \/ ClientSubmit
  \/ \E st \in Streams : ClientSubscribe(st)
  \/ \E rid \in ReqIds : WsRequestTimeout(rid)
  \/ WsHeartbeatFire(FALSE)
  \/ \E p \in 1..MaxPings : WsPingTimeout(p)
  \/ \E d \in Remaining : PingTick(d)

FairSilent ==
  /\ WF_vars(ClientTryWs)
  /\ WF_vars(\E s \in Sockets : WsOnOpen(s))
  /\ WF_vars(\E s \in Sockets : WsOnConnected(s))
  /\ WF_vars(\E rid \in ReqIds : WsRequestTimeout(rid))
  /\ WF_vars(WsHeartbeatFire(FALSE))
  /\ WF_vars(\E p \in 1..MaxPings : WsPingTimeout(p))
  /\ WF_vars(\E d \in Remaining : PingTick(d))

SpecSilent == InitWs /\ [][NextSilent]_vars /\ FairSilent

\* the TimeSyncManager fed with ping results
NextSync == \E result \in PingResults : TimeSyncRecord(result)

SpecSync == Init /\ [][NextSync]_vars

\* ------------------------------------------------------------- properties
\* the candidates of the chain, in order
Chain == IF quicSupplied THEN <<"quic", "websocket", "http">> ELSE <<"websocket", "http">>

\* C1: connect() attempts QUIC (when supplied), then WebSocket, then HTTP, in
\* that order; a candidate is attempted only after every earlier one failed or
\* timed out; after a success nothing further is attempted and the returned
\* ConnectionInfo names the successful candidate.
C1_FallbackOrder ==
  /\ Len(attempted) <= Len(Chain)
  /\ \A i \in 1..Len(attempted) :
       /\ attempted[i].cand = Chain[i]
       /\ i < Len(attempted) => attempted[i].result \in {"failed", "timeout"}
  /\ pc = "returned" =>
       /\ attempted /= <<>>
       /\ attempted[Len(attempted)].result = "ok"
       /\ connectionInfo = attempted[Len(attempted)].cand

\* C1 witness: QUIC timed out, WebSocket succeeded and was returned
C1_Witness ==
  /\ pc = "returned"
  /\ Len(attempted) = 2
  /\ attempted[1] = [cand |-> "quic", result |-> "timeout"]
  /\ connectionInfo = "websocket"

\* C2: connect() never waits on a streaming candidate for longer than that
\* candidate's timeout: once the timeout has elapsed it has moved on.
C2_NoWaitBeyondTimeout ==
  /\ pc = "quic_wait" => clock <= QuicTimeout
  /\ pc = "ws_wait" => clock <= WsTimeout

\* C3: a submission goes over QUIC if the QUIC transport is connected at
\* dispatch, else over WebSocket if that is connected, and over HTTP only when
\* no streaming transport is connected.
C3_HttpOnlyWithoutStreaming ==
  lastRoute.via /= "none" =>
    lastRoute.via = (IF lastRoute.quic THEN "quic"
                     ELSE IF lastRoute.ws THEN "websocket" ELSE "http")

\* C4: after connect() has returned (and before the caller disconnects) the
\* reported protocol is 'http' exactly when no streaming transport is
\* connected, and otherwise names the transport carrying submissions.
C4_ProtocolNamesMode ==
  (pc = "returned" /\ ~wsFinal /\ ~quicFinal) =>
    /\ connectionInfo = "http" <=> (~quicConnected /\ ~wsConnected)
    /\ connectionInfo /= "http" => connectionInfo = Route

\* C5: connect() rejects only if every candidate including the HTTP fallback
\* failed; failures or timeouts of QUIC and WebSocket alone end in a returned
\* client.
C5_RejectsOnlyIfAllFail ==
  /\ pc = "rejected" =>
       \E i \in 1..Len(attempted) :
         attempted[i].cand = "http" /\ attempted[i].result = "failed"
  /\ (attempted /= <<>> /\ attempted[Len(attempted)].cand = "http") => pc = "returned"

\* C5 witness: QUIC and WebSocket both failed and connect() returned
C5_Witness ==
  /\ pc = "returned"
  /\ Len(attempted) = 3
  /\ attempted[1].result \in {"failed", "timeout"}
  /\ attempted[2].result = "failed"
  /\ connectionInfo = "http"

\* the error code each cause of settlement carries
CodesOf(how) ==
  CASE how = "response" -> {"OK", "TRANSACTION"}
    [] how = "timer" -> {"TIMEOUT"}
    [] how = "close" -> {"CONNECTION"}

\* C6: every WebSocket submission is settled at most once, by its response,
\* its timer or the close, with the matching outcome; its PendingRequest
\* entry and timer are gone from that moment, and a response settles only
\* the request whose id it carries.
C6_SettledAtMostOnce ==
  \A r \in ReqIds :
    /\ Len(settled[r]) <= 1
    /\ r \in pendingRequests <=> (r <= requestIdCounter /\ settled[r] = <<>>)
    /\ r \in reqTimers => r \in pendingRequests
    /\ \A i \in 1..Len(settled[r]) :
         /\ settled[r][i].code \in CodesOf(settled[r][i].by)
         /\ settled[r][i].by = "response" => settled[r][i].id = r

\* C6 witness: two submissions settled by different causes
C6_Witness ==
  /\ settled[1] /= <<>>
  /\ settled[2] /= <<>>
  /\ settled[1][1].by = "response"
  /\ settled[2][1].by /= "response"

\* C7: when disconnect() returns, every submission outstanding at the call
\* has been rejected with CONNECTION and the pending-request map is empty.
C7_DisconnectRejectsPending ==
  [][(~wsFinal /\ wsFinal') =>
       /\ pendingRequests' = {}
       /\ \A r \in pendingRequests :
            /\ settled'[r] /= <<>>
            /\ settled'[r][1].code = "CONNECTION"]_vars

\* C8: after disconnect() has returned (and until the caller connects anew) no
\* reconnect timer is pending, no connection attempt exists and the transport
\* does not report connected.
C8_DisconnectIsFinal ==
  /\ wsFinal => (~wsConnected /\ wsReconnectTimer = 0 /\ wsSock = 0)
  /\ quicFinal => (~quicConnected /\ quicReconnectTimer = 0 /\ quicConnection = 0)

\* C9: at every successful WebSocket handshake exactly one subscribe message
\* per desired stream is sent on the new connection, none twice, none missing.
C9_ReplayOnHandshake ==
  [][\A s \in Sockets :
       (wsPromise[s] = "pending" /\ wsPromise'[s] = "resolved") =>
         \A st \in Streams :
           Count(wsSent'[s], SubscribeMsg(st))
             = (IF st \in Range(subscribedStreams') THEN 1 ELSE 0)]_vars

\* C10: after every successful QuicTransport.connect() one subscription
\* request per stream type of the active set is sent on the new connection,
\* none twice.
C10_QuicReplayOnConnect ==
  [][\A c \in Conns :
       (c \notin monitored /\ c \in monitored') =>
         \A t \in StreamTypes :
           Count(quicSent'[c], t)
             = (IF t \in Range(activeSubscriptions') THEN 1 ELSE 0)]_vars

\* the WebSocket transport was disconnected by force and may reconnect
WsDown == wsShouldReconnect /\ ~wsConnected /\ \E s \in Sockets : sockState[s] = "closed"

\* the QUIC transport was disconnected by force and may reconnect
QuicDown == quicShouldReconnect /\ ~quicConnected /\ \E c \in Conns : connState[c] = "closed"

\* C11: after a forced disconnect of a connected streaming transport with
\* reconnection enabled, and with the server accepting the reconnect attempt,
\* the transport is eventually connected again (unless the caller disconnects
\* it first); this holds after every such disconnect in a row.
C11_ReconnectsAfterForcedDisconnect ==
  /\ WsDown ~> (wsConnected \/ wsFinal)
  /\ QuicDown ~> (quicConnected \/ quicFinal)

\* C11 witness: the WebSocket is connected again after two forced disconnects
C11_Witness ==
  /\ wsConnected
  /\ wsSock = 3
  /\ sockState[1] = "closed"
  /\ sockState[2] = "closed"
  /\ sockState[3] = "open"

\* min(1000 * 2^(k-1), 30000) for k = 1, 2, ...
ExpectedDelay(k) ==
  CASE k = 1 -> 1000
    [] k = 2 -> 2000
    [] k = 3 -> 4000
    [] k = 4 -> 8000
    [] k = 5 -> 16000
    [] OTHER -> 30000

\* C12: the k-th consecutive reconnect attempt is scheduled with a delay of
\* min(1000 * 2^(k-1), 30000) ms, k being the attempts scheduled since the last
\* successful connect; a successful (re)connect resets the count to 0, and
\* nothing else changes it.
C12_BackoffDelays ==
  [][/\ wsReconnectAttempts' /= wsReconnectAttempts =>
          \/ wsReconnectAttempts' = 0 /\ wsConnected'
          \/ /\ wsReconnectAttempts' = wsReconnectAttempts + 1
             /\ wsReconnectTimer' = ExpectedDelay(wsReconnectAttempts')
     /\ (~wsConnected /\ wsConnected') => wsReconnectAttempts' = 0
     /\ (wsReconnectTimer' /= 0 /\ wsReconnectTimer' /= wsReconnectTimer) =>
          wsReconnectAttempts' = wsReconnectAttempts + 1
     /\ quicReconnectAttempts' /= quicReconnectAttempts =>
          \/ quicReconnectAttempts' = 0 /\ quicConnected'
          \/ /\ quicReconnectAttempts' = quicReconnectAttempts + 1
             /\ quicReconnectTimer' = ExpectedDelay(quicReconnectAttempts')
     /\ (~quicConnected /\ quicConnected') => quicReconnectAttempts' = 0
     /\ (quicReconnectTimer' /= 0 /\ quicReconnectTimer' /= quicReconnectTimer) =>
          quicReconnectAttempts' = quicReconnectAttempts + 1]_vars

\* C12 witness: the seventh consecutive attempt is scheduled at the 30 s cap
C12_Witness ==
  /\ wsReconnectAttempts = 7
  /\ wsReconnectTimer = 30000

\* the WebSocket transport has stopped retrying: reconnection is enabled, the
\* last socket is closed, no timer is armed
WsGaveUp ==
  /\ wsShouldReconnect
  /\ ~wsConnected
  /\ wsReconnectTimer = 0
  /\ wsSock /= 0
  /\ sockState[wsSock] = "closed"

\* the QUIC transport has stopped retrying: reconnection is enabled, a
\* reconnect was scheduled since the last success, no timer is armed and no
\* connect() is in flight
QuicGaveUp ==
  /\ quicShouldReconnect
  /\ ~quicFinal
  /\ ~quicConnected
  /\ quicReconnectAttempts > 0
  /\ quicReconnectTimer = 0
  /\ quicCall.phase = "idle"

\* C13: a transport whose reconnect attempts keep failing makes at most 10
\* consecutive attempts; when it has stopped retrying it has made all 10 and
\* has emitted exactly one terminal error, and it emits none before.
C13_ExhaustionReportedOnce ==
  /\ wsReconnectAttempts <= maxReconnectAttempts
  /\ quicReconnectAttempts <= maxReconnectAttempts
  /\ WsGaveUp => (wsReconnectAttempts = maxReconnectAttempts /\ terminalErrors.ws = 1)
  /\ QuicGaveUp => (quicReconnectAttempts = maxReconnectAttempts /\ terminalErrors.quic = 1)
  /\ ~WsGaveUp => terminalErrors.ws = 0
  /\ ~QuicGaveUp => terminalErrors.quic = 0

\* C14: a leader hint below minSwitchConfidence, or processed less than
\* switchCooldownMs after the last switch, leaves the current routing and the
\* last-switch time unchanged and emits no routingUpdate; a hint passing both
\* gates makes its preferredRegion (and backupRegions) the current routing.
C14_HintGates ==
  [][\A r \in Regions, hint \in Hints :
       MultiHint(r, hint) =>
         IF \/ hint.confidence < minSwitchConfidence
            \/ multiNow - lastSwitchTime < switchCooldownMs
         THEN UNCHANGED <<currentRouting, lastSwitchTime, routingUpdates>>
         ELSE /\ currentRouting'.bestRegion = hint.preferredRegion
              /\ currentRouting'.fallbackRegions = hint.backupRegions
              /\ lastSwitchTime' = multiNow
              /\ routingUpdates' > routingUpdates]_vars

\* C14 witness: of two hints one was accepted and one was refused
C14_Witness ==
  /\ hintsSeen = 2
  /\ routingUpdates = 1
  /\ currentRouting.bestRegion = "c"

\* C15: no submission chooses its target or its fallback regions from a
\* recommendation whose validity window has elapsed.
C15_NoStaleRouting ==
  \A c \in 1..MaxCalls : ~calls[c].usedStale

\* C16: a non-broadcast submission tries the best region of its dispatch (the
\* default region without a recommendation) and then that recommendation's
\* fallback regions in list order, each only after the one before failed, and
\* returns the first success.
C16_SequentialFallback ==
  \A c \in 1..MaxCalls :
    LET cl == calls[c] IN
    cl.kind = "single" =>
      /\ Len(cl.attempts) <= Len(cl.plan)
      /\ \A i \in 1..Len(cl.attempts) :
           /\ cl.attempts[i].region = cl.plan[i]
           /\ i < Len(cl.attempts) => cl.attempts[i].stage = "err"
      /\ cl.outcome = "ok" =>
           /\ cl.ret = Len(cl.attempts)
           /\ cl.attempts[cl.ret].stage = "ok"

\* C17: a non-broadcast submission that rejects has failed in every region it
\* tried and rejects with the error of the last region tried.
C17_RejectsWithLastError ==
  \A c \in 1..MaxCalls :
    LET cl == calls[c] IN
    (cl.kind = "single" /\ cl.outcome = "rejected") =>
      /\ \A i \in 1..Len(cl.attempts) : cl.attempts[i].stage = "err"
      /\ cl.ret = Len(cl.attempts)

\* C18: a broadcast resolves, with the result of a region that succeeded, iff
\* at least one attempted region succeeded; it rejects only when every
\* attempted region failed, and then with the error of the first of them; it
\* is settled exactly when every attempt is.
C18_BroadcastOutcome ==
  \A c \in 1..MaxCalls :
    LET cl == calls[c]
        A == cl.attempts
    IN
    cl.kind = "broadcast" =>
      /\ cl.outcome = "none" <=> \E j \in 1..Len(A) : Pending(A[j])
      /\ cl.outcome = "ok" =>
           /\ cl.ret \in 1..Len(A)
           /\ A[cl.ret].stage = "ok"
      /\ (cl.outcome /= "none" /\ \E j \in 1..Len(A) : A[j].stage = "ok") => cl.outcome = "ok"
      /\ cl.outcome = "rejected" =>
           /\ \A j \in 1..Len(A) : A[j].stage = "err"
           /\ A /= <<>> => cl.ret = 1

\* C18 witness: one broadcast resolved although a region failed, another one
\* rejected
C18_Witness ==
  /\ calls[1].kind = "broadcast"
  /\ calls[1].outcome = "ok"
  /\ \E j \in 1..Len(calls[1].attempts) : calls[1].attempts[j].stage = "err"
  /\ calls[2].kind = "broadcast"
  /\ calls[2].outcome = "rejected"

\* C19: a broadcast is sent to at most maxBroadcastRegions regions, each a
\* known region, no region twice, and the transaction is handed to each
\* region's client at most once (exactly once when the attempt got that far).
C19_BroadcastFanout ==
  \A c \in 1..MaxCalls :
    LET A == calls[c].attempts IN
    calls[c].kind = "broadcast" =>
      /\ Len(A) <= maxBroadcastRegions
      /\ \A i \in 1..Len(A) :
           /\ A[i].region \in Regions
           /\ \A j \in 1..Len(A) : A[i].region = A[j].region => i = j
           /\ A[i].submits <= 1
           /\ A[i].stage \in {"submit", "ok"} => A[i].submits = 1

\* C19 witness: a settled broadcast that went to maxBroadcastRegions regions
\* while more regions are known
C19_Witness ==
  /\ calls[1].kind = "broadcast"
  /\ calls[1].outcome /= "none"
  /\ Len(calls[1].attempts) = maxBroadcastRegions
  /\ Len(RegionOrder) > maxBroadcastRegions

\* the connects in flight for region r
Connecting(r) ==
  {<<c, i>> \in (1..MaxCalls) \X (1..(1 + MaxBackups + maxBroadcastRegions)) :
     /\ i <= Len(calls[c].attempts)
     /\ calls[c].attempts[i].region = r
     /\ calls[c].attempts[i].stage = "connect"}

\* C20: per region at most one SlipstreamClient exists; no connect is started
\* for a region that is connected or being connected.
C20_OneClientPerRegion ==
  \A r \in Regions :
    /\ created[r] <= 1
    /\ Cardinality(Connecting(r)) + (IF r \in clients THEN 1 ELSE 0) <= 1

\* the last n elements of a sequence
LastN(s, n) == SubSeq(s, Len(s) - n + 1, Len(s))

\* m is a median of the numbers v: one of them, with at least half of them
\* at or below it and at least half at or above it
IsMedianOf(m, v) ==
  /\ \E i \in 1..Len(v) : v[i] = m
  /\ 2 * Cardinality({i \in 1..Len(v) : v[i] <= m}) >= Len(v)
  /\ 2 * Cardinality({i \in 1..Len(v) : v[i] >= m}) >= Len(v)

\* a statistic of the window: null when it is empty, else a median of the
\* field's values over exactly the samples in the window
WindowMedian(stat, v) ==
  IF Len(v) = 0 THEN stat = <<>> ELSE Len(stat) = 1 /\ IsMedianOf(stat[1], v)

\* C21: the sample window never holds more than 10 samples and always holds
\* the most recent min(n, 10) recorded samples in arrival order; medianRttMs
\* and medianClockOffsetMs are the median of the samples in the window, and
\* null when it is empty.
C21_SlidingWindowMedian ==
  LET n == IF Len(recorded) < 10 THEN Len(recorded) ELSE 10 IN
  /\ Len(samples) <= 10
  /\ samples = LastN(recorded, n)
  /\ WindowMedian(medianRttMs(samples), [i \in 1..n |-> LastN(recorded, n)[i].rttMs])
  /\ WindowMedian(medianClockOffsetMs(samples),
                  [i \in 1..n |-> LastN(recorded, n)[i].clockOffsetMs])

\* an older sample was evicted from a full window that holds both results
C21_Witness ==
  /\ Len(recorded) = 12
  /\ Len(samples) = 10
  /\ recorded[1] /= recorded[2]
  /\ samples[1] /= samples[10]
  /\ medianRttMs(samples) = <<20>>
  /\ medianClockOffsetMs(samples) = <<-7>>

\* C22: every ping result has rttMs = receiveTime - clientSendTime and
\* clockOffsetMs = serverTime - (clientSendTime + rttMs / 2), with the send
\* time of the ping being answered (both sides doubled: rttMs may be odd).
C22_OffsetFormula ==
  \A p \in 1..MaxPings :
    pings[p].state = "resolved" =>
      /\ pings[p].rttMs = pings[p].answeredAge
      /\ 2 * pings[p].clockOffsetMs =
           2 * (ServerSkew - pings[p].serverAgo + pings[p].answeredAge) - pings[p].answeredAge

\* C23: a ping whose pong arrives before its own timeout resolves, with the
\* result of its own pong; a ping is rejected by its own timer only; and a
\* ping is settled once its own timer has fired.
C23_OwnTimeout ==
  \A p \in 1..MaxPings :
    /\ pings[p].ponged => pings[p].state = "resolved"
    /\ pings[p].state = "resolved" => pings[p].seq = p /\ pings[p].rttMs = pings[p].answeredAge
    /\ pings[p].state = "rejected" => pings[p].by = p
    /\ pings[p].state = "pending" => pings[p].timer

\* C29: a silently dead WebSocket connection is detected by the heartbeat:
\* the transport stops reporting connected and a reconnect is under way.
C29_HeartbeatDetectsSilentDeath ==
  wsConnected ~> (~wsConnected /\ (reconnecting \/ wsReconnectTimer /= 0))

\* C30: when the connect() of an automatic QUIC reconnect attempt fails and
\* fewer than 10 consecutive attempts were made, another attempt is scheduled
\* with the next backoff delay.
C30_RetryAfterFailedReconnect ==
  [][(/\ QuicConnectFail
      /\ quicCall.by = "timer"
      /\ quicShouldReconnect
      /\ quicReconnectAttempts < maxReconnectAttempts)
     => quicReconnectTimer' = Backoff(quicReconnectAttempts)]_vars

\* the QUIC connection is open and disconnect() was not called since
QuicOpen ==
  quicConnected /\ quicConnection /= 0 /\ connState[quicConnection] = "open"

C25_MalformedFramesDropped ==
  \A k \in 1..Len(flowLog) :
    flowLog[k].frame \notin CompleteFrames =>
      flowLog[k].decoded /= "throw" /\ flowLog[k].event = "none"

\* C26: the current routing always has a confidence within [0, 100] and a
\* fallbackRegions that does not contain its bestRegion, whatever leader
\* hints were received.
C26_RoutingInvariant ==
  currentRouting /= NoRouting =>
    /\ currentRouting.confidence >= 0
    /\ currentRouting.confidence <= 100
    /\ currentRouting.bestRegion \notin Range(currentRouting.fallbackRegions)

\* the one code the claim gives a finished request: by the status when a
\* non-success status was received, else TIMEOUT when the request was
\* aborted, else CONNECTION when anything else failed
MappedCode(rq) ==
  IF rq.status = 401 THEN "AUTH"
  ELSE IF rq.status = 429 THEN "RATE_LIMITED"
  ELSE IF rq.status /= 0 /\ ~responseOk(rq.status) THEN "INTERNAL"
  ELSE IF rq.aborted THEN "TIMEOUT"
  ELSE IF rq.thrown /= "none" THEN "CONNECTION"
  ELSE "ok"

\* C27: a finished request has exactly the code of its outcome (401 AUTH,
\* 429 RATE_LIMITED, other non-success status INTERNAL with the status in
\* the message, aborted TIMEOUT, any other failure CONNECTION), and its
\* timeout timer is no longer armed.
C27_HttpErrorMapping ==
  \A q \in 1..MaxRequests :
    http[q].at = "done" =>
      /\ http[q].result = MappedCode(http[q])
      /\ http[q].result = "INTERNAL" => http[q].embedded = http[q].status
      /\ http[q].timer /= "armed"

\* one request ended with AUTH on a 401 and another with INTERNAL on a 500
\* whose body read was cut by the timeout
C27_Witness ==
  /\ http[1].at = "done" /\ http[1].status = 401 /\ http[1].result = "AUTH"
  /\ http[1].timer = "cleared"
  /\ http[2].at = "done" /\ http[2].status = 500 /\ http[2].aborted
  /\ http[2].result = "INTERNAL"

\* minConfidence was set outside [0, 100]
ConfidenceOutside(config) ==
  /\ config.minConfidence /= <<>>
  /\ (config.minConfidence[1] < 0 \/ config.minConfidence[1] > 100)

\* the outcome of build() on a builder that must be refused when refuse
\* holds: a CONFIG error and no config, else the defaults overridden by
\* exactly the values set
BuildOutcome(refuse) ==
  IF refuse
  THEN built.error = "CONFIG" /\ built.config = <<>>
  ELSE /\ built.error = "none"
       /\ Len(built.config) = 1
       /\ \A f \in ConfigFields :
            built.config[1][f] = IF built.of[f] /= <<>> THEN built.of[f]
                                 ELSE DEFAULT_CONFIG[f]

\* C28 as stated: build() fails with a CONFIG error and returns no config
\* when apiKey was not set or minConfidence was set outside [0, 100];
\* otherwise it returns the defaults overridden by exactly the values set.
C28_BuildAsStated ==
  built.calls > 0 =>
    BuildOutcome(built.of.apiKey = <<>> \/ ConfidenceOutside(built.of))

\* C28 (amended): build() fails with a CONFIG error and returns no config
\* when apiKey was not set or was set to the empty string, or when
\* minConfidence was set outside [0, 100]; otherwise it returns the defaults
\* overridden by exactly the values set.
C28_BuildValidates ==
  built.calls > 0 =>
    BuildOutcome(built.of.apiKey \in {<<>>, <<"">>} \/ ConfidenceOutside(built.of))

\* a second build() on a builder with apiKey, minConfidence 100 and tier
\* 'free' set returned those values and the default leaderHints
C28_Witness ==
  /\ built.calls = 2
  /\ built.error = "none"
  /\ built.of.apiKey = <<"sk_test">>
  /\ built.of.minConfidence = <<100>>
  /\ built.config[1].minConfidence = <<100>>
  /\ built.config[1].tier = <<"free">>
  /\ built.config[1].leaderHints = <<TRUE>>

\* C31: a leader hint delivered by a region's client (the primary region's
\* too, under every switchCooldownMs, 0 included) is evaluated once: if it
\* passes the gates it makes exactly one routing change and exactly one
\* routingUpdate emission, and none otherwise.
C31_OneUpdatePerHint ==
  [][\A r \in Regions, hint \in Hints :
       MultiHint(r, hint) =>
         IF /\ hint.confidence >= minSwitchConfidence
            /\ multiNow - lastSwitchTime >= switchCooldownMs
         THEN /\ routingUpdates' = routingUpdates + 1
              /\ currentRouting'.bestRegion = hint.preferredRegion
              /\ lastSwitchTime' = multiNow
         ELSE UNCHANGED <<currentRouting, lastSwitchTime, routingUpdates>>]_vars

C33_TagOptional ==
  \A k \in 1..Len(decodeLog) : decodeLog[k].bare = decodeLog[k].tagged

\* C34: while the transport holds a socket, no event of a previous socket
\* changes the connected flag, stops the heartbeat, rejects pending requests
\* or schedules a reconnect.
C34_StaleSocketEventsIgnored ==
  [][\A s \in Sockets :
       (/\ wsSock /= 0
        /\ s /= wsSock
        /\ WsOnOpen(s) \/ WsOnConnected(s) \/ WsOnError(s) \/ WsOnClose(s))
         => UNCHANGED <<wsConnected, heartbeatIn, pendingRequests, settled,
                        reconnecting, wsReconnectTimer>>]_vars

\* C35: an unexpected close of the connected current socket schedules a
\* reconnect while attempts remain, on every connection connect() established,
\* one established after an explicit disconnect() included.
C35_ReconnectAfterReconnect ==
  [][\A s \in Sockets :
       (/\ WsOnClose(s)
        /\ s = wsSock
        /\ wsConnected
        /\ wsPromise[s] = "resolved"
        /\ WsCanSchedule)
         => wsReconnectTimer' /= 0]_vars

\* C36: once SlipstreamClient.disconnect() has returned, no transport the
\* client used is connected, is still connecting, or has a reconnect pending.
C36_NothingLeftAfterDisconnect ==
  (pc = "returned" /\ wsFinal) =>
    /\ ~wsConnected
    /\ wsReconnectTimer = 0
    /\ ~quicConnected
    /\ quicReconnectTimer = 0
    /\ quicCall.phase = "idle"

\* C37: once connect() has returned in degraded HTTP mode, isConnected() and
\* connectionStatus().state report connected until disconnect() is called,
\* whatever the background WebSocket reconnect attempts do.
C37_HttpModeStaysConnected ==
  (pc = "returned" /\ connectionInfo = "http" /\ ~wsFinal) => clientConnected

\* C38: a transport error during SlipstreamClient.connect, before the caller
\* can have registered an 'error' listener, never raises an uncaught
\* exception.
C38_ConnectErrorsAbsorbed == ~uncaught

\* C39: whenever the QuicTransport is connected its running flag is set and
\* one acceptor loop reads from the current connection; the end of a loop
\* started for an earlier connection neither clears the flag nor stops the
\* loop of a later connection.
C39_OneAcceptorLoop ==
  quicConnected => (subscriptionLoopRunning /\ acceptor = quicConnection)

\* the calls that completed, by resolving or by throwing
Completed == {k \in 1..MaxSubmits : submissions[k].phase \in {"resolved", "threw"}}

\* C40: after any interleaving of submissions metrics().transactionsSubmitted
\* is the number of completed submitTransactionWithOptions calls, resolved
\* or thrown, and transactionsConfirmed never exceeds it.
C40_EveryCallCountedOnce ==
  /\ metrics.transactionsSubmitted = Cardinality(Completed)
  /\ metrics.transactionsConfirmed <= metrics.transactionsSubmitted

\* one call threw and one resolved confirmed while a third is still pending
C40_Witness ==
  /\ \E k \in 1..MaxSubmits : submissions[k].phase = "threw"
  /\ \E k \in 1..MaxSubmits : submissions[k].status = "confirmed"
  /\ \E k \in 1..MaxSubmits : submissions[k].phase = "pending"
  /\ metrics.transactionsSubmitted = 2
  /\ metrics.transactionsConfirmed = 1

====
